---- MODULE Spec2Model ----
(***************************************************************************)
(* Ledger and payout engine of the task bot (src/bot.py).                  *)
(*                                                                         *)
(* The database is the only shared state.  Every handler opens its own     *)
(* psycopg connection (autocommit off, PostgreSQL READ COMMITTED), so a    *)
(* handler is a sequence of statements; each SELECT sees the rows          *)
(* committed at the moment it runs, and the rows written by INSERT/UPDATE  *)
(* stay locked until conn.commit().  The variables below hold the          *)
(* COMMITTED rows.  A handler in flight is a record of proc: its position  *)
(* (pc) and the values it has read so far.                                 *)
(*                                                                         *)
(* Each run of SELECTs is one step per statement.  The write statements of *)
(* one transaction up to its commit are one step, taken at the commit:     *)
(* an UPDATE waits for the row lock and then evaluates its WHERE clause    *)
(* and its relative SET expressions on the newest committed row, which     *)
(* nobody else can change before the commit; the lock orders of the        *)
(* handlers (payout key, user, campaign / withdrawal, user) have no cycle, *)
(* so the commits order the write phases.                                  *)
(***************************************************************************)
EXTENDS Integers, Sequences, FiniteSets, Bags, TLC

\* ---------------------------------------------------------------- config
TASKS_PER_DAY == 3
LEVEL_STEP_DAYS == 4
MAX_LEVEL == 10
MIN_WITHDRAW_USD_CENTS == 500
MIN_PAYOUT_USD_CENTS == 1

\* ---------------------------------------------------------------- bounds
NUsers == 2
MaxBudget == 6
MaxGoal == 3
MaxWithdrawals == 2
MaxCatalog == 1
MaxDay == 2
\* The templates the admin adds to the catalog in the runs with /addtask.
MaxTemplates == 3
\* The campaigns the admin creates in the runs with /newcampaign.
MaxCampaigns == 2
\* The days of the runs that follow a streak over the days.
MaxStreakDay == 4

Users == 1..NUsers
\* Two handlers run at a time: the races of the claims are races of two.
Procs == {1, 2}
Levels == 1..MAX_LEVEL
\* Levels of the callers in the concurrent runs: no bonus, and the capped bonus.
RaceLevels == {1, MAX_LEVEL}

VARIABLES
    users,        \* users table: user_id -> row
    campaigns,    \* campaigns table: sequence of rows, id = position
    payouts,      \* campaign_payouts table: set of rows, key (campaign_id, user_id)
    withdrawals,  \* withdrawals table: sequence of rows, id = position
    task_catalog, \* task_catalog table, active rows: sequence of types, id = position
    daily_tasks,  \* daily_tasks table: sequence of rows, id = position
    completions,  \* task_completions table: bag of keys <<user_id, task_id>>
    today,        \* today_local(): the number of the current day, from 1
    proc,         \* handlers in flight: process -> locals
    hist          \* history of the committed operations, for the properties

vars == <<users, campaigns, payouts, withdrawals,
          task_catalog, daily_tasks, completions, today, proc, hist>>

\* The ledger tables.
db == <<users, campaigns, payouts, withdrawals>>

\* The tables of the daily tasks, and the clock.
days == <<task_catalog, daily_tasks, completions, today>>

\* ---------------------------------------------------------------- helpers
Max(a, b) == IF a >= b THEN a ELSE b

Min(a, b) == IF a <= b THEN a ELSE b

RECURSIVE SumOver(_, _)
\* Sum of f(x) over the finite set S (f is a function defined on S).
SumOver(S, f) ==
    IF S = {} THEN 0
    ELSE LET x == CHOOSE y \in S : TRUE
         IN f[x] + SumOver(S \ {x}, f)

WithdrawalIds == 1..MaxWithdrawals

\* No withdrawal lifecycle is being followed for the user.
NoLifecycle == [stage |-> "none", wid |-> 0, pre_balance |-> 0, pre_held |-> 0,
                post_balance |-> 0, post_held |-> 0]

\* The user has completed no task yet.
NoCall == [task_id |-> 0, repeat |-> FALSE, streak_days |-> 0, level |-> 0,
           last_completed_date |-> 0, balance |-> 0]

\* Nothing has happened yet.
StreakDays == 1..Max(MaxDay, MaxStreakDay)

NoHistory ==
    [credited |-> 0,                              \* total of the payouts credited
     paid_out |-> 0,                              \* total of the withdrawals paid
     ok_count |-> [w \in WithdrawalIds |-> 0],    \* pays and rejects that succeeded
     both_ok |-> FALSE,                           \* two racing pays/rejects succeeded
     lifecycle |-> [u \in Users |-> NoLifecycle], \* see Logged
     last_call |-> [u \in Users |-> NoCall],      \* see DayReturn
     inserted_seen |-> EmptyBag,                  \* see SawInserted
     streak_after |-> [u \in Users |-> [d \in StreakDays |-> 0]]] \* see StreakWrite

\* The lifecycle of user uid after the committed operation op on withdrawal
\* wid: the operations on the user's money since the last request, as long as
\* they are that request, then attach, then pay, or that request, then
\* reject, each on the requested withdrawal with nothing in between; with the
\* user's balance and held before and after the request.
NextStage(l, op, wid) ==
    IF l.wid = wid /\ l.stage = "requested" /\ op = "attach"
    THEN [l EXCEPT !.stage = "requested_attached"]
    ELSE IF l.wid = wid /\ l.stage = "requested" /\ op = "reject"
    THEN [l EXCEPT !.stage = "requested_rejected"]
    ELSE IF l.wid = wid /\ l.stage = "requested_attached" /\ op = "pay"
    THEN [l EXCEPT !.stage = "requested_attached_paid"]
    ELSE NoLifecycle

\* hist after the committed operation op on withdrawal wid (0: none) of user uid.
Logged(h, uid, op, wid) ==
    [h EXCEPT !.lifecycle[uid] = NextStage(@, op, wid)]

\* hist after the committed request that created wid: user is the row before
\* the request and after it.
LoggedRequest(h, uid, wid, before, after) ==
    [h EXCEPT !.lifecycle[uid] =
        [stage |-> "requested", wid |-> wid,
         pre_balance |-> before.balance, pre_held |-> before.held,
         post_balance |-> after.balance, post_held |-> after.held]]

\* users row as init_db creates it (column defaults).
NewUser ==
    [balance |-> 0, held |-> 0, pending_withdraw_id |-> 0,
     streak_days |-> 0, level |-> 1, last_completed_date |-> 0]

\* campaigns row as create_campaign inserts it.
NewCampaign(budget_cents, goal) ==
    [budget |-> budget_cents, goal |-> goal, completed_count |-> 0,
     spent |-> 0, is_active |-> TRUE]

IdleProc ==
    [op |-> "none", pc |-> "idle", user_id |-> 0, campaign_id |-> 0,
     user_level |-> 0, payout |-> 0, wid |-> 0, amount |-> 0,
     status |-> "none", ret |-> 0,
     day |-> 0, arg |-> 0, task_id |-> 0, selected |-> <<>>, total |-> 0,
     streak |-> 0, inserted |-> FALSE,
     \* history of the call, for the properties:
     saw_no_row |-> FALSE,          \* its payout-row check found no row
     exhausted_at_call |-> FALSE,   \* the campaign was exhausted when called
     seen_ok |-> 0]                 \* ok_count of the withdrawal when read

Idle(p) == proc[p].pc = "idle"

CampaignExists(cid) == cid \in 1..Len(campaigns)

PayoutRows(cid, uid) == {r \in payouts : r.campaign_id = cid /\ r.user_id = uid}

Exhausted(c) == c.completed_count >= c.goal \/ c.spent >= c.budget

\* ---------------------------------------------------------------- payout
\* compute_campaign_payout without the max_allowed cap (mutant).
ComputePayoutNoCap(c, user_level) ==
    LET remaining_budget == Max(0, c.budget - c.spent)
        remaining_needed == Max(0, c.goal - c.completed_count)
    IN IF ~c.is_active THEN 0
       ELSE IF remaining_budget <= 0 \/ remaining_needed <= 0 THEN 0
       ELSE LET base == Max(MIN_PAYOUT_USD_CENTS, remaining_budget \div remaining_needed)
                bonus == Min(Max(user_level - 1, 0), 5)
            IN Max(MIN_PAYOUT_USD_CENTS, base + bonus)

\* compute_campaign_payout with max_allowed = remaining_budget: nothing is
\* reserved for the completions still owed (mutant).
ComputePayoutNoReserve(c, user_level) ==
    LET remaining_budget == Max(0, c.budget - c.spent)
        remaining_needed == Max(0, c.goal - c.completed_count)
    IN IF ~c.is_active THEN 0
       ELSE IF remaining_budget <= 0 \/ remaining_needed <= 0 THEN 0
       ELSE LET base == Max(MIN_PAYOUT_USD_CENTS, remaining_budget \div remaining_needed)
                bonus == Min(Max(user_level - 1, 0), 5)
                payout == Min(base + bonus, remaining_budget)
            IN Max(MIN_PAYOUT_USD_CENTS, payout)

\* compute_campaign_payout on the campaign row c it has just selected.
ComputePayout(c, user_level) ==
    LET remaining_budget == Max(0, c.budget - c.spent)
        remaining_needed == Max(0, c.goal - c.completed_count)
    IN IF ~c.is_active THEN 0
       ELSE IF remaining_budget <= 0 \/ remaining_needed <= 0 THEN 0
       ELSE LET base == Max(MIN_PAYOUT_USD_CENTS, remaining_budget \div remaining_needed)
                bonus == Min(Max(user_level - 1, 0), 5)
                desired == base + bonus
                max_allowed == remaining_budget
                               - (remaining_needed - 1) * MIN_PAYOUT_USD_CENTS
                payout == Min(desired, max_allowed)
            IN Max(MIN_PAYOUT_USD_CENTS, payout)

\* The campaign row after the counters' update, never deactivated (mutant).
CampaignAfterPayoutStaysActive(c, payout) ==
    [c EXCEPT !.completed_count = @ + 1, !.spent = @ + payout]

\* The campaign row after a payout whose UPDATE adds the amount to spent
\* and leaves completed_count (mutant).
CampaignAfterPayoutSpentOnly(c, payout) ==
    LET c2 == [c EXCEPT !.spent = @ + payout]
    IN IF c2.completed_count >= c2.goal \/ c2.spent >= c2.budget
       THEN [c2 EXCEPT !.is_active = FALSE]
       ELSE c2

\* The campaign row after "completed_count + 1, spent + payout" and the
\* deactivation test on the row read back (c2).
CampaignAfterPayout(c, payout) ==
    LET c2 == [c EXCEPT !.completed_count = @ + 1, !.spent = @ + payout]
    IN IF c2.completed_count >= c2.goal \/ c2.spent >= c2.budget
       THEN [c2 EXCEPT !.is_active = FALSE]
       ELSE c2

Call(op) == [IdleProc EXCEPT !.op = op]

\* A command handler returns: its reply (status) is all that is left of it.
Reply(p, status) ==
    proc' = [proc EXCEPT ![p] = [IdleProc EXCEPT !.op = proc[p].op,
                                                 !.status = status]]

\* try_pay_campaign returns.  Called on its own, the call's arguments and
\* result stay readable until the process takes its next call; called by
\* /go after a completion of today's campaign task (day > 0), the handler
\* goes on to apply_streak_if_day_completed unless the call raised; in the
\* ledger, where /go is its payout only, the handler replies.
Return(p, status, ret) ==
    IF proc[p].op = "try_pay_campaign"
    THEN proc' = [proc EXCEPT ![p].pc = "idle", ![p].status = status,
                              ![p].ret = ret, ![p].user_level = 0,
                              ![p].payout = 0]
    ELSE IF proc[p].day > 0 /\ status # "raised"
    THEN proc' = [proc EXCEPT ![p].pc = "count_total", ![p].ret = ret,
                              ![p].user_level = 0, ![p].payout = 0,
                              ![p].campaign_id = 0, ![p].saw_no_row = FALSE,
                              ![p].exhausted_at_call = FALSE]
    ELSE Reply(p, status)

\* try_pay_campaign(campaign_id, user_id, user_level) is called (by op); its
\* first statement looks for a payout row of (campaign, user).
PayCall(p, op, cid, uid, lvl) ==
    /\ Idle(p)
    /\ LET call == [IdleProc EXCEPT !.op = op, !.campaign_id = cid,
                        !.user_id = uid, !.user_level = lvl,
                        !.exhausted_at_call =
                            CampaignExists(cid) /\ Exhausted(campaigns[cid])]
       IN IF PayoutRows(cid, uid) # {}
          THEN proc' = [proc EXCEPT ![p] =
                           IF op = "try_pay_campaign"
                           THEN [call EXCEPT !.status = "ok", !.user_level = 0]
                           ELSE [Call(op) EXCEPT !.status = "ok"]]
          ELSE proc' = [proc EXCEPT ![p] = [call EXCEPT !.pc = "pay_select_campaign",
                                                        !.saw_no_row = TRUE]]
    /\ UNCHANGED <<db, days, hist>>

\* SELECT * FROM campaigns; "if not c or not c['is_active']: return 0".
PaySelectCampaign(p) ==
    /\ proc[p].pc = "pay_select_campaign"
    /\ LET cid == proc[p].campaign_id
       IN IF ~CampaignExists(cid) \/ ~campaigns[cid].is_active
          THEN Return(p, "ok", 0)
          ELSE proc' = [proc EXCEPT ![p].pc = "pay_compute"]
    /\ UNCHANGED <<db, days, hist>>

\* payout = compute_campaign_payout(...): selects the campaign row again.
PayCompute(p) ==
    /\ proc[p].pc = "pay_compute"
    /\ LET cid == proc[p].campaign_id
           payout == IF CampaignExists(cid)
                     THEN ComputePayout(campaigns[cid], proc[p].user_level)
                     ELSE 0
       IN IF payout <= 0
          THEN Return(p, "ok", 0)
          ELSE proc' = [proc EXCEPT ![p].pc = "pay_write", ![p].payout = payout]
    /\ UNCHANGED <<db, days, hist>>

\* The write phase of try_pay_campaign on a campaign_payouts table without
\* its primary key: the INSERT never raises (mutant).
PayWriteNoKey(p) ==
    /\ proc[p].pc = "pay_write"
    /\ LET cid == proc[p].campaign_id
           uid == proc[p].user_id
           payout == proc[p].payout
       IN /\ payouts' = payouts \cup
                {[campaign_id |-> cid, user_id |-> uid, paid |-> payout]}
          /\ users' = [users EXCEPT ![uid].balance = @ + payout]
          /\ campaigns' = [campaigns EXCEPT ![cid] = CampaignAfterPayout(@, payout)]
          /\ hist' = [Logged(hist, uid, "payout", 0) EXCEPT !.credited = @ + payout]
          /\ Return(p, "ok", payout)
          /\ UNCHANGED <<withdrawals, days>>

\* INSERT campaign_payouts; UPDATE users; UPDATE campaigns; read back and
\* deactivate; commit.  The primary key (campaign_id, user_id) makes the
\* INSERT raise when a committed row exists: the transaction rolls back.
PayWrite(p) ==
    /\ proc[p].pc = "pay_write"
    /\ LET cid == proc[p].campaign_id
           uid == proc[p].user_id
           payout == proc[p].payout
       IN IF PayoutRows(cid, uid) # {}
          THEN /\ Return(p, "raised", 0)
               /\ UNCHANGED <<db, days, hist>>
          ELSE /\ payouts' = payouts \cup
                     {[campaign_id |-> cid, user_id |-> uid, paid |-> payout]}
               /\ users' = [users EXCEPT ![uid].balance = @ + payout]
               /\ campaigns' = [campaigns EXCEPT
                                   ![cid] = CampaignAfterPayout(@, payout)]
               /\ hist' = [Logged(hist, uid, "payout", 0) EXCEPT
                              !.credited = @ + payout]
               /\ Return(p, "ok", payout)
               /\ UNCHANGED <<withdrawals, days>>

\* One step of try_pay_campaign by process p, called for any user with a
\* level of the set lvls.
PayStep(p, lvls) ==
    \/ \E uid \in Users, lvl \in lvls : PayCall(p, "try_pay_campaign", 1, uid, lvl)
    \/ PaySelectCampaign(p)
    \/ PayCompute(p)
    \/ PayWrite(p)

\* One campaign, just created by /newcampaign (budget > 0, goal > 0).
InitPay ==
    /\ users = [u \in Users |-> NewUser]
    /\ \E b \in 1..MaxBudget, g \in 1..MaxGoal : campaigns = <<NewCampaign(b, g)>>
    /\ payouts = {}
    /\ withdrawals = <<>>
    /\ task_catalog = <<>>
    /\ daily_tasks = <<>>
    /\ completions = EmptyBag
    /\ today = 1
    /\ proc = [p \in Procs |-> IdleProc]
    /\ hist = NoHistory

\* Calls one at a time: a single connection.
NextPaySeq == PayStep(1, Levels)

SpecPaySeq == InitPay /\ [][NextPaySeq]_vars

\* Calls by concurrent handlers.
NextPayConc == \E p \in Procs : PayStep(p, RaceLevels)

SpecPayConc == InitPay /\ [][NextPayConc]_vars

\* ---------------------------------------------------------------- withdrawals
WithdrawalExists(wid) == wid \in 1..Len(withdrawals)


\* /retirar, retirar._work_create: get_user, then the two refusals.
ReqCall(p, uid) ==
    /\ Idle(p)
    /\ Len(withdrawals) < MaxWithdrawals
    /\ LET user == users[uid]
           call == [Call("retirar") EXCEPT !.user_id = uid]
       IN IF user.pending_withdraw_id # 0
          THEN proc' = [proc EXCEPT ![p] = [Call("retirar") EXCEPT
                                               !.status = "pending_exists"]]
          ELSE IF user.balance < MIN_WITHDRAW_USD_CENTS
          THEN proc' = [proc EXCEPT ![p] = [Call("retirar") EXCEPT
                                               !.status = "not_enough"]]
          ELSE proc' = [proc EXCEPT ![p] = [call EXCEPT !.pc = "req_write",
                                               !.amount = user.balance]]
    /\ UNCHANGED <<db, days, hist>>

\* create_withdrawal_request that moves nothing to held (mutant).
ReqWriteNoHold(p) ==
    /\ proc[p].pc = "req_write"
    /\ LET uid == proc[p].user_id
           amount_cents == proc[p].amount
           wid == Len(withdrawals) + 1
       IN /\ users[uid].balance >= amount_cents
          /\ users' = [users EXCEPT ![uid].balance = @ - amount_cents,
                                    ![uid].pending_withdraw_id = wid]
          /\ withdrawals' = Append(withdrawals,
                [user_id |-> uid, amount |-> amount_cents,
                 status |-> "awaiting_details"])
          /\ hist' = LoggedRequest(hist, uid, wid, users[uid], users'[uid])
          /\ Reply(p, "created")
          /\ UNCHANGED <<campaigns, payouts, days>>

\* create_withdrawal_request whose first UPDATE has no "AND
\* balance_usd_cents >= amount" (mutant).
ReqWriteNoTest(p) ==
    /\ proc[p].pc = "req_write"
    /\ LET uid == proc[p].user_id
           amount_cents == proc[p].amount
           wid == Len(withdrawals) + 1
       IN /\ users' = [users EXCEPT ![uid].balance = @ - amount_cents,
                                    ![uid].held = @ + amount_cents,
                                    ![uid].pending_withdraw_id = wid]
          /\ withdrawals' = Append(withdrawals,
                [user_id |-> uid, amount |-> amount_cents,
                 status |-> "awaiting_details"])
          /\ hist' = LoggedRequest(hist, uid, wid, users[uid], users'[uid])
          /\ Reply(p, "created")
          /\ UNCHANGED <<campaigns, payouts, days>>

\* create_withdrawal_request(user_id, amount_cents): the conditional UPDATE of
\* the balance, the INSERT of the withdrawal, pending_withdraw_id, commit.
\* When the UPDATE matches no row it rolls back and raises.
ReqWrite(p) ==
    /\ proc[p].pc = "req_write"
    /\ LET uid == proc[p].user_id
           amount_cents == proc[p].amount
           wid == Len(withdrawals) + 1
       IN IF users[uid].balance >= amount_cents
          THEN /\ users' = [users EXCEPT ![uid].balance = @ - amount_cents,
                                         ![uid].held = @ + amount_cents,
                                         ![uid].pending_withdraw_id = wid]
               /\ withdrawals' = Append(withdrawals,
                     [user_id |-> uid, amount |-> amount_cents,
                      status |-> "awaiting_details"])
               /\ hist' = LoggedRequest(hist, uid, wid, users[uid], users'[uid])
               /\ Reply(p, "created")
               /\ UNCHANGED <<campaigns, payouts, days>>
          ELSE /\ Reply(p, "raised")
               /\ UNCHANGED <<db, days, hist>>

\* A text message, capture_withdraw_details_if_pending._work: get_user.
AttCall(p, uid) ==
    /\ Idle(p)
    /\ IF users[uid].pending_withdraw_id = 0
       THEN proc' = [proc EXCEPT ![p] =
                        [Call("attach_details") EXCEPT !.status = "none"]]
       ELSE proc' = [proc EXCEPT ![p] =
                        [Call("attach_details") EXCEPT !.user_id = uid,
                                                       !.pc = "att_select"]]
    /\ UNCHANGED <<db, days, hist>>

\* attach_withdrawal_details: SELECT pending_withdraw_id; "if not wid".
AttSelect(p) ==
    /\ proc[p].pc = "att_select"
    /\ LET wid == users[proc[p].user_id].pending_withdraw_id
       IN IF wid = 0
          THEN Reply(p, "none")
          ELSE proc' = [proc EXCEPT ![p].pc = "att_write", ![p].wid = wid]
    /\ UNCHANGED <<db, days, hist>>

\* attach_withdrawal_details without its UPDATE of users: pending_withdraw_id
\* stays set (mutant).
AttWriteKeepsPending(p) ==
    /\ proc[p].pc = "att_write"
    /\ LET uid == proc[p].user_id
           wid == proc[p].wid
       IN /\ withdrawals' = [withdrawals EXCEPT ![wid].status = "pending"]
          /\ users' = users
          /\ hist' = Logged(hist, uid, "attach", wid)
    /\ Reply(p, "ok")
    /\ UNCHANGED <<campaigns, payouts, days>>

\* attach_withdrawal_details: UPDATE withdrawals SET status = 'pending'
\* WHERE id = wid (whatever the status is); UPDATE users SET
\* pending_withdraw_id = NULL; commit.
AttWrite(p) ==
    /\ proc[p].pc = "att_write"
    /\ LET uid == proc[p].user_id
           wid == proc[p].wid
       IN /\ withdrawals' = [withdrawals EXCEPT ![wid].status = "pending"]
          /\ users' = [users EXCEPT ![uid].pending_withdraw_id = 0]
          /\ hist' = Logged(hist, uid, "attach", wid)
    /\ Reply(p, "ok")
    /\ UNCHANGED <<campaigns, payouts, days>>

\* /paywithdraw <id>, paywithdraw._work: SELECT the withdrawal.
PayWdCall(p, wid) ==
    /\ Idle(p)
    /\ LET call == [Call("paywithdraw") EXCEPT !.wid = wid]
       IN IF ~WithdrawalExists(wid)
          THEN proc' = [proc EXCEPT ![p] = [call EXCEPT !.status = "not_found",
                                                        !.wid = 0]]
          ELSE LET w == withdrawals[wid]
                   found == [call EXCEPT !.user_id = w.user_id,
                                         !.seen_ok = hist.ok_count[wid]]
               IN IF w.status # "pending"
                  THEN proc' = [proc EXCEPT ![p] =
                                   [Call("paywithdraw") EXCEPT
                                       !.status = "not_pending"]]
                  ELSE proc' = [proc EXCEPT ![p] =
                                   [found EXCEPT !.pc = "paywd_select_held",
                                                 !.amount = w.amount]]
    /\ UNCHANGED <<db, days, hist>>

\* paywithdraw._work: SELECT held_usd_cents; "insufficient_held".
PayWdSelectHeld(p) ==
    /\ proc[p].pc = "paywd_select_held"
    /\ IF users[proc[p].user_id].held < proc[p].amount
       THEN Reply(p, "insufficient_held")
       ELSE proc' = [proc EXCEPT ![p].pc = "paywd_write"]
    /\ UNCHANGED <<db, days, hist>>

\* hist after the pay or reject of wid by p succeeded: both_ok when another
\* pay or reject of wid has succeeded since p read the withdrawal.
AdminOk(h, p, wid) ==
    [h EXCEPT !.ok_count[wid] = @ + 1,
              !.both_ok = @ \/ h.ok_count[wid] > proc[p].seen_ok]

\* paywithdraw._work: UPDATE withdrawals SET status = 'paid' WHERE id AND
\* status = 'pending'; rowcount; UPDATE users SET held = held - amount; commit.
PayWdWrite(p) ==
    /\ proc[p].pc = "paywd_write"
    /\ LET wid == proc[p].wid
           uid == proc[p].user_id
           amount == proc[p].amount
       IN IF withdrawals[wid].status = "pending"
          THEN /\ withdrawals' = [withdrawals EXCEPT ![wid].status = "paid"]
               /\ users' = [users EXCEPT ![uid].held = @ - amount]
               /\ hist' = [AdminOk(Logged(hist, uid, "pay", wid), p, wid) EXCEPT
                              !.paid_out = @ + amount]
               /\ Reply(p, "ok")
               /\ UNCHANGED <<campaigns, payouts, days>>
          ELSE /\ Reply(p, "failed")
               /\ UNCHANGED <<db, days, hist>>

\* /rejectwithdraw <id>, rejectwithdraw._work: SELECT the withdrawal.
RejCall(p, wid) ==
    /\ Idle(p)
    /\ LET call == [Call("rejectwithdraw") EXCEPT !.wid = wid]
       IN IF ~WithdrawalExists(wid)
          THEN proc' = [proc EXCEPT ![p] = [call EXCEPT !.status = "not_found",
                                                        !.wid = 0]]
          ELSE LET w == withdrawals[wid]
                   found == [call EXCEPT !.user_id = w.user_id,
                                         !.seen_ok = hist.ok_count[wid]]
               IN IF w.status \notin {"pending", "awaiting_details"}
                  THEN proc' = [proc EXCEPT ![p] =
                                   [Call("rejectwithdraw") EXCEPT
                                       !.status = "not_rejectable"]]
                  ELSE proc' = [proc EXCEPT ![p] =
                                   [found EXCEPT !.pc = "rej_write",
                                                 !.amount = w.amount]]
    /\ UNCHANGED <<db, days, hist>>

\* rejectwithdraw._work: UPDATE withdrawals SET status = 'rejected' WHERE id
\* AND status IN ('pending', 'awaiting_details'); rowcount; UPDATE users SET
\* held = GREATEST(0, held - amount), balance = balance + amount; commit.
RejWrite(p) ==
    /\ proc[p].pc = "rej_write"
    /\ LET wid == proc[p].wid
           uid == proc[p].user_id
           amount == proc[p].amount
       IN IF withdrawals[wid].status \in {"pending", "awaiting_details"}
          THEN /\ withdrawals' = [withdrawals EXCEPT ![wid].status = "rejected"]
               /\ users' = [users EXCEPT ![uid].held = Max(0, @ - amount),
                                         ![uid].balance = @ + amount]
               /\ hist' = AdminOk(Logged(hist, uid, "reject", wid), p, wid)
               /\ Reply(p, "ok")
               /\ UNCHANGED <<campaigns, payouts, days>>
          ELSE /\ Reply(p, "failed")
               /\ UNCHANGED <<db, days, hist>>

\* /go on the campaign task, go._work: get_user, then try_pay_campaign with
\* the level of the user's row.
GoPayCall(p, uid) == PayCall(p, "go", 1, uid, users[uid].level)

\* One step of the ledger by process p.
LedgerStep(p) ==
    \/ \E uid \in Users : GoPayCall(p, uid)
    \/ PaySelectCampaign(p)
    \/ PayCompute(p)
    \/ PayWrite(p)
    \/ \E uid \in Users : ReqCall(p, uid)
    \/ ReqWrite(p)
    \/ \E uid \in Users : AttCall(p, uid)
    \/ AttSelect(p)
    \/ AttWrite(p)
    \/ \E wid \in WithdrawalIds : PayWdCall(p, wid)
    \/ PayWdSelectHeld(p)
    \/ PayWdWrite(p)
    \/ \E wid \in WithdrawalIds : RejCall(p, wid)
    \/ RejWrite(p)

\* One campaign whose even split pays every user the withdrawal minimum.
Init ==
    /\ users = [u \in Users |-> NewUser]
    /\ campaigns = <<NewCampaign(MIN_WITHDRAW_USD_CENTS * NUsers, NUsers)>>
    /\ payouts = {}
    /\ withdrawals = <<>>
    /\ task_catalog = <<>>
    /\ daily_tasks = <<>>
    /\ completions = EmptyBag
    /\ today = 1
    /\ proc = [p \in Procs |-> IdleProc]
    /\ hist = NoHistory

Next == \E p \in Procs : LedgerStep(p)

\* The ledger: campaign payouts and the withdrawal lifecycle, run by
\* concurrent handlers.
Spec == Init /\ [][Next]_vars

\* The ledger with one handler at a time.
NextLedgerSeq == LedgerStep(1)

SpecLedgerSeq == Init /\ [][NextLedgerSeq]_vars

\* ---------------------------------------------------------------- the day
TaskTypes == {"checkin", "quiz", "link"}

Days == 1..MaxDay

\* One user sends the task commands: a user's own sequence of calls.
DayUsers == {1}

\* compute_level(streak_completed_days).
ComputeLevel(streak) ==
    LET lvl == 1 + (Max(0, streak) \div LEVEL_STEP_DAYS)
    IN Min(Max(lvl, 1), MAX_LEVEL)

\* The ids of the daily_tasks rows of the day.
TasksOf(day) == {t \in 1..Len(daily_tasks) : daily_tasks[t].day = day}

\* The task of the set ts (rows of one day) that comes first by idx.
FirstByIdx(ts) == CHOOSE t \in ts : \A o \in ts : daily_tasks[t].idx <= daily_tasks[o].idx

\* get_active_campaign: the newest campaign with is_active, 0 for none.
ActiveCampaign ==
    LET active == {c \in 1..Len(campaigns) : campaigns[c].is_active}
    IN IF active = {} THEN 0 ELSE CHOOSE c \in active : \A o \in active : o <= c

\* The draws of k catalog rows without replacement: every weight is at
\* least 1, so the generator can draw the rows of the pool in any order.
Draws(k) ==
    {d \in [1..k -> 1..Len(task_catalog)] :
        \A i, j \in 1..k : i # j => d[i] # d[j]}

\* A task command whose ensure_user replaces the user's row by a new one
\* instead of updating username, first_name and last_active_date (mutant).
TaskCallNewRow(p, op, uid, arg) ==
    /\ Idle(p)
    /\ proc' = [proc EXCEPT ![p] = [Call(op) EXCEPT !.pc = "tasks_exist",
                                        !.user_id = uid, !.arg = arg,
                                        !.day = today]]
    /\ users' = [users EXCEPT ![uid] = NewUser]
    /\ UNCHANGED <<campaigns, payouts, withdrawals, days, hist>>

\* /checkin, /quiz <answer> or /go <code> (op) by user uid: day =
\* today_local(); ensure_user and set_last_active write last_active_date
\* only.  arg is the command's argument: for /quiz 1 is the expected
\* answer, for /go arg is the position of the task whose code was typed,
\* and 0 is an answer or a code that matches nothing.
TaskCall(p, op, uid, arg) ==
    /\ Idle(p)
    /\ proc' = [proc EXCEPT ![p] = [Call(op) EXCEPT !.pc = "tasks_exist",
                                        !.user_id = uid, !.arg = arg,
                                        !.day = today]]
    /\ UNCHANGED <<db, days, hist>>

\* The handler has the day's tasks: /start reads the user and replies, the
\* task commands go on to select their task.
AfterEnsureDay(p) ==
    IF proc[p].op = "start"
    THEN [IdleProc EXCEPT !.op = "start", !.status = "ok"]
    ELSE [proc[p] EXCEPT !.pc = "find_task", !.selected = <<>>]

\* daily_tasks_exist left out: create_daily_tasks runs on every command
\* (mutant).
DailyTasksExistAlwaysCreate(p) ==
    /\ proc[p].pc = "tasks_exist"
    /\ proc' = [proc EXCEPT ![p].pc = "create_select_campaign"]
    /\ UNCHANGED <<db, days, hist>>

\* if not daily_tasks_exist(conn, day): create_daily_tasks(...)
DailyTasksExist(p) ==
    /\ proc[p].pc = "tasks_exist"
    /\ proc' = [proc EXCEPT ![p] = IF TasksOf(proc[p].day) # {}
                                   THEN AfterEnsureDay(p)
                                   ELSE [@ EXCEPT !.pc = "create_select_campaign"]]
    /\ UNCHANGED <<db, days, hist>>

\* create_daily_tasks: campaign = get_active_campaign(conn).
CreateSelectCampaign(p) ==
    /\ proc[p].pc = "create_select_campaign"
    /\ proc' = [proc EXCEPT ![p].pc = "create_select_catalog",
                            ![p].campaign_id = ActiveCampaign]
    /\ UNCHANGED <<db, days, hist>>

\* create_daily_tasks: selects the active catalog rows and builds selected:
\* the campaign task first when there is a campaign, then a draw of
\* min(remaining_slots, len(pool)) catalog rows.
CreateSelectCatalog(p) ==
    /\ proc[p].pc = "create_select_catalog"
    /\ LET cid == proc[p].campaign_id
           head == IF cid # 0
                   THEN <<[type |-> "campaign_link", campaign_id |-> cid,
                           catalog_id |-> 0]>>
                   ELSE <<>>
           remaining_slots == Max(0, TASKS_PER_DAY - Len(head))
           k == Min(remaining_slots, Len(task_catalog))
       IN \E d \in Draws(k) :
            proc' = [proc EXCEPT
                ![p].pc = "create_insert",
                ![p].campaign_id = 0,
                ![p].selected = head \o
                    [i \in 1..k |-> [type |-> task_catalog[d[i]],
                                     campaign_id |-> 0, catalog_id |-> d[i]]]]
    /\ UNCHANGED <<db, days, hist>>

\* create_daily_tasks: INSERT INTO daily_tasks (day, idx from 1, ...) ON
\* CONFLICT (day, idx) DO NOTHING for each selected task; commit.
CreateInsert(p) ==
    /\ proc[p].pc = "create_insert"
    /\ LET day == proc[p].day
           selected == proc[p].selected
           rows == [i \in 1..Len(selected) |->
                       [day |-> day, idx |-> i, type |-> selected[i].type,
                        campaign_id |-> selected[i].campaign_id,
                        catalog_id |-> selected[i].catalog_id]]
           NoConflict(r) == \A t \in TasksOf(day) : daily_tasks[t].idx # r.idx
       IN daily_tasks' = daily_tasks \o SelectSeq(rows, NoConflict)
    /\ proc' = [proc EXCEPT ![p] = AfterEnsureDay(p)]
    /\ UNCHANGED <<db, task_catalog, completions, today, hist>>

\* The handler's SELECT without the comparison of the answer or the code:
\* the first task of the command's types is taken (mutant).
FindTaskAnyAnswer(p) ==
    /\ proc[p].pc = "find_task"
    /\ LET op == proc[p].op
           types == IF op = "checkin" THEN {"checkin"}
                    ELSE IF op = "quiz" THEN {"quiz"}
                    ELSE {"link", "campaign_link"}
           rows == {t \in TasksOf(proc[p].day) : daily_tasks[t].type \in types}
       IN IF rows = {} THEN Reply(p, "no_task")
          ELSE proc' = [proc EXCEPT ![p].pc = "complete_task",
                                    ![p].task_id = FirstByIdx(rows)]
    /\ UNCHANGED <<db, days, hist>>

\* The handler's SELECT of the task the command is about: /checkin takes the
\* day's first checkin task, /quiz the first quiz task and compares the
\* answer, /go the first link or campaign_link task whose code was typed
\* (make_daily_code has idx in it: a code names one position of the day).
FindTask(p) ==
    /\ proc[p].pc = "find_task"
    /\ LET op == proc[p].op
           types == IF op = "checkin" THEN {"checkin"}
                    ELSE IF op = "quiz" THEN {"quiz"}
                    ELSE {"link", "campaign_link"}
           rows == {t \in TasksOf(proc[p].day) : daily_tasks[t].type \in types}
           match == IF op = "go"
                    THEN {t \in rows : daily_tasks[t].idx = proc[p].arg}
                    ELSE IF op = "quiz" /\ proc[p].arg # 1 THEN {}
                    ELSE {FirstByIdx(rows)}
       IN IF rows = {} THEN Reply(p, "no_task")
          ELSE IF match = {} THEN Reply(p, "wrong")
          ELSE proc' = [proc EXCEPT ![p].pc = "complete_task",
                                    ![p].task_id = FirstByIdx(match)]
    /\ UNCHANGED <<db, days, hist>>


\* hist after a call of complete_task for key = <<user_id, task_id>> returned
\* inserted: inserted_seen is the bag of the keys whose handler saw
\* inserted = True.
SawInserted(h, key, inserted) ==
    IF inserted THEN [h EXCEPT !.inserted_seen = @ (+) SetToBag({key})] ELSE h

\* complete_task that always inserts a row: task_completions without its
\* primary key and the INSERT without ON CONFLICT DO NOTHING (mutant).
CompleteTaskNoConflict(p) ==
    /\ proc[p].pc = "complete_task"
    /\ LET key == <<proc[p].user_id, proc[p].task_id>>
           task == daily_tasks[proc[p].task_id]
       IN /\ completions' = completions (+) SetToBag({key})
          /\ hist' = SawInserted(hist, key, TRUE)
          /\ proc' = [proc EXCEPT
                ![p].inserted = TRUE,
                ![p].pc = IF proc[p].op = "go" /\ task.type = "campaign_link"
                             /\ task.campaign_id # 0
                          THEN "go_get_user" ELSE "count_total"]
    /\ UNCHANGED <<db, task_catalog, daily_tasks, today>>

\* complete_task: INSERT INTO task_completions ... ON CONFLICT DO NOTHING;
\* commit; inserted = (rowcount == 1).  /go then pays the campaign "if
\* inserted and match['type'] == 'campaign_link' and match['campaign_id']".
CompleteTask(p) ==
    /\ proc[p].pc = "complete_task"
    /\ LET key == <<proc[p].user_id, proc[p].task_id>>
           task == daily_tasks[proc[p].task_id]
           inserted == ~BagIn(key, completions)
       IN /\ completions' = IF inserted THEN completions (+) SetToBag({key})
                            ELSE completions
          /\ hist' = SawInserted(hist, key, inserted)
          /\ proc' = [proc EXCEPT
                ![p].inserted = inserted,
                ![p].pc = IF proc[p].op = "go" /\ inserted
                             /\ task.type = "campaign_link"
                             /\ task.campaign_id # 0
                          THEN "go_get_user" ELSE "count_total"]
    /\ UNCHANGED <<db, task_catalog, daily_tasks, today>>

\* /go: user = get_user(conn, u.id), for the level handed to try_pay_campaign.
GoGetUser(p) ==
    /\ proc[p].pc = "go_get_user"
    /\ proc' = [proc EXCEPT
            ![p].pc = "pay_check",
            ![p].campaign_id = daily_tasks[proc[p].task_id].campaign_id,
            ![p].user_level = users[proc[p].user_id].level]
    /\ UNCHANGED <<db, days, hist>>

\* try_pay_campaign without its first SELECT on campaign_payouts (mutant).
PayCheckNoRowTest(p) ==
    /\ proc[p].pc = "pay_check"
    /\ LET cid == proc[p].campaign_id
       IN proc' = [proc EXCEPT
              ![p].pc = "pay_select_campaign",
              ![p].saw_no_row = TRUE,
              ![p].exhausted_at_call =
                  CampaignExists(cid) /\ Exhausted(campaigns[cid])]
    /\ UNCHANGED <<db, days, hist>>

\* try_pay_campaign called by /go: its first statement looks for a payout
\* row of (campaign, user), and it returns 0 when there is one.
PayCheck(p) ==
    /\ proc[p].pc = "pay_check"
    /\ LET cid == proc[p].campaign_id
       IN IF PayoutRows(cid, proc[p].user_id) # {}
          THEN Return(p, "ok", 0)
          ELSE proc' = [proc EXCEPT
                   ![p].pc = "pay_select_campaign",
                   ![p].saw_no_row = TRUE,
                   ![p].exhausted_at_call =
                       CampaignExists(cid) /\ Exhausted(campaigns[cid])]
    /\ UNCHANGED <<db, days, hist>>

\* The handler is through with complete_task and
\* apply_streak_if_day_completed and replies (what it still reads for its
\* message changes nothing).  hist keeps, for the user, the task of the call,
\* whether the user's call before it was for the same task, and the user's
\* row as the call leaves it (after).
DayLog(h, p, after) ==
    [h EXCEPT !.last_call[proc[p].user_id] =
        [task_id |-> proc[p].task_id,
         repeat |-> @.task_id = proc[p].task_id,
         streak_days |-> after.streak_days,
         level |-> after.level,
         last_completed_date |-> after.last_completed_date,
         balance |-> after.balance]]

DayReturn(p, after) ==
    /\ proc' = [proc EXCEPT ![p] = [IdleProc EXCEPT
                                       !.op = proc[p].op, !.status = "ok"]]
    /\ hist' = DayLog(hist, p, after)

\* all_tasks_done: SELECT COUNT(*) AS total FROM daily_tasks WHERE day.
CountTotal(p) ==
    /\ proc[p].pc = "count_total"
    /\ proc' = [proc EXCEPT ![p].pc = "count_done",
                            ![p].total = Cardinality(TasksOf(proc[p].day))]
    /\ UNCHANGED <<db, days, hist>>

\* all_tasks_done that returns True as soon as one task of the day is
\* completed (mutant).
CountDoneAnyTask(p) ==
    /\ proc[p].pc = "count_done"
    /\ LET uid == proc[p].user_id
           ts == TasksOf(proc[p].day)
           done == SumOver(ts, [t \in ts |-> CopiesIn(<<uid, t>>, completions)])
       IN IF proc[p].total > 0 /\ done > 0
          THEN /\ proc' = [proc EXCEPT ![p].pc = "streak_select", ![p].total = 0]
               /\ UNCHANGED hist
          ELSE DayReturn(p, users[uid])
    /\ UNCHANGED <<db, days>>

\* all_tasks_done that leaves the handler's own task out of done, as if it
\* counted before the completion was inserted (mutant).
CountDoneBeforeOwn(p) ==
    /\ proc[p].pc = "count_done"
    /\ LET uid == proc[p].user_id
           ts == TasksOf(proc[p].day) \ {proc[p].task_id}
           done == SumOver(ts, [t \in ts |-> CopiesIn(<<uid, t>>, completions)])
       IN IF proc[p].total > 0 /\ done = proc[p].total
          THEN /\ proc' = [proc EXCEPT ![p].pc = "streak_select", ![p].total = 0]
               /\ UNCHANGED hist
          ELSE DayReturn(p, users[uid])
    /\ UNCHANGED <<db, days>>

\* all_tasks_done: SELECT COUNT(*) AS done FROM task_completions JOIN
\* daily_tasks; apply_streak_if_day_completed returns False unless
\* total > 0 and done == total.
CountDone(p) ==
    /\ proc[p].pc = "count_done"
    /\ LET uid == proc[p].user_id
           ts == TasksOf(proc[p].day)
           done == SumOver(ts, [t \in ts |-> CopiesIn(<<uid, t>>, completions)])
       IN IF proc[p].total > 0 /\ done = proc[p].total
          THEN /\ proc' = [proc EXCEPT ![p].pc = "streak_select", ![p].total = 0]
               /\ UNCHANGED hist
          ELSE DayReturn(p, users[uid])
    /\ UNCHANGED <<db, days>>

\* The streak of apply_streak_if_day_completed without the reset to 1: the
\* streak grows whatever the last completed day (mutant).
StreakSelectNoReset(p) ==
    /\ proc[p].pc = "streak_select"
    /\ LET row == users[proc[p].user_id]
           last_done == row.last_completed_date
       IN IF last_done = proc[p].day
          THEN DayReturn(p, row)
          ELSE /\ proc' = [proc EXCEPT
                      ![p].pc = "streak_write",
                      ![p].streak = row.streak_days + 1]
               /\ UNCHANGED hist
    /\ UNCHANGED <<db, days>>

\* apply_streak_if_day_completed without its "if last_done == day: return
\* False" (mutant).
StreakSelectNoDayTest(p) ==
    /\ proc[p].pc = "streak_select"
    /\ LET row == users[proc[p].user_id]
           last_done == row.last_completed_date
       IN proc' = [proc EXCEPT
               ![p].pc = "streak_write",
               ![p].streak = IF last_done # 0 /\ last_done = proc[p].day - 1
                             THEN row.streak_days + 1 ELSE 1]
    /\ UNCHANGED <<db, days, hist>>

\* apply_streak_if_day_completed: SELECT last_completed_date, streak_days;
\* nothing to do when last_done == day; else streak + 1 when last_done is
\* the day before, 1 otherwise (0 is NULL: no day completed yet).
StreakSelect(p) ==
    /\ proc[p].pc = "streak_select"
    /\ LET row == users[proc[p].user_id]
           last_done == row.last_completed_date
       IN IF last_done = proc[p].day
          THEN DayReturn(p, row)
          ELSE /\ proc' = [proc EXCEPT
                      ![p].pc = "streak_write",
                      ![p].streak =
                          IF last_done # 0 /\ last_done = proc[p].day - 1
                          THEN row.streak_days + 1 ELSE 1]
               /\ UNCHANGED hist
    /\ UNCHANGED <<db, days>>

\* StreakWrite with an UPDATE that leaves the level column out.
StreakWriteKeepLevel(p) ==
    /\ proc[p].pc = "streak_write"
    /\ LET uid == proc[p].user_id
       IN /\ users' = [users EXCEPT
                 ![uid].last_completed_date = proc[p].day,
                 ![uid].streak_days = proc[p].streak]
          /\ proc' = [proc EXCEPT ![p] = [IdleProc EXCEPT
                                            !.op = proc[p].op, !.status = "ok"]]
          /\ hist' = [DayLog(hist, p, users'[uid]) EXCEPT
                         !.streak_after[uid][proc[p].day] = proc[p].streak]
    /\ UNCHANGED <<campaigns, payouts, withdrawals, days>>

\* apply_streak_if_day_completed: level = compute_level(streak); UPDATE users
\* SET last_completed_date, streak_days, level; commit.  hist keeps, for the
\* user and the day, the streak the update wrote (streak_after; 0: no update
\* for that day).
StreakWrite(p) ==
    /\ proc[p].pc = "streak_write"
    /\ LET uid == proc[p].user_id
       IN /\ users' = [users EXCEPT
                 ![uid].last_completed_date = proc[p].day,
                 ![uid].streak_days = proc[p].streak,
                 ![uid].level = ComputeLevel(proc[p].streak)]
          /\ proc' = [proc EXCEPT ![p] = [IdleProc EXCEPT
                                            !.op = proc[p].op, !.status = "ok"]]
          /\ hist' = [DayLog(hist, p, users'[uid]) EXCEPT
                         !.streak_after[uid][proc[p].day] = proc[p].streak]
    /\ UNCHANGED <<campaigns, payouts, withdrawals, days>>

\* Midnight in the bot's time zone.
NextDay ==
    /\ today < MaxDay
    /\ today' = today + 1
    /\ UNCHANGED <<db, task_catalog, daily_tasks, completions, proc, hist>>

\* One step of a handler of a task command after its call.
TaskStep(p) ==
    \/ DailyTasksExist(p)
    \/ CreateSelectCampaign(p)
    \/ CreateSelectCatalog(p)
    \/ CreateInsert(p)
    \/ FindTask(p)
    \/ CompleteTask(p)
    \/ GoGetUser(p)
    \/ PayCheck(p)
    \/ PaySelectCampaign(p)
    \/ PayCompute(p)
    \/ PayWrite(p)
    \/ CountTotal(p)
    \/ CountDone(p)
    \/ StreakSelect(p)
    \/ StreakWrite(p)

\* One step of a task command handled by process p.
DayStep(p) ==
    \/ \E uid \in DayUsers : TaskCall(p, "checkin", uid, 0)
    \/ \E uid \in DayUsers, arg \in 0..1 : TaskCall(p, "quiz", uid, arg)
    \/ \E uid \in DayUsers, arg \in 0..TASKS_PER_DAY : TaskCall(p, "go", uid, arg)
    \/ TaskStep(p)

\* One step of /go <code> with the code of one of today's tasks, handled by
\* process p.
GoStep(p) ==
    \/ \E uid \in DayUsers, arg \in 1..TASKS_PER_DAY : TaskCall(p, "go", uid, arg)
    \/ TaskStep(p)

\* New users, a catalog of up to MaxCatalog active templates, one campaign
\* just created by /newcampaign, no task generated yet.
InitDay ==
    /\ users = [u \in Users |-> NewUser]
    /\ campaigns = <<NewCampaign(MaxBudget, MaxGoal)>>
    /\ payouts = {}
    /\ withdrawals = <<>>
    /\ \E n \in 0..MaxCatalog : task_catalog \in [1..n -> TaskTypes]
    /\ daily_tasks = <<>>
    /\ completions = EmptyBag
    /\ today = 1
    /\ proc = [p \in Procs |-> IdleProc]
    /\ hist = NoHistory

\* Task commands one at a time, over the days.
NextDaySeq == DayStep(1) \/ NextDay

SpecDaySeq == InitDay /\ [][NextDaySeq]_vars

\* Task commands handled by concurrent handlers, over the days.
NextDayConc == (\E p \in Procs : DayStep(p)) \/ NextDay

SpecDayConc == InitDay /\ [][NextDayConc]_vars

\* The catalogs of the /go runs: the day is the campaign task alone, or the
\* campaign task and a link task.
GoCatalogs == {<<>>, <<"link">>}

\* InitDay with the catalogs of the /go runs.
InitGo ==
    /\ users = [u \in Users |-> NewUser]
    /\ campaigns = <<NewCampaign(MaxBudget, MaxGoal)>>
    /\ payouts = {}
    /\ withdrawals = <<>>
    /\ task_catalog \in GoCatalogs
    /\ daily_tasks = <<>>
    /\ completions = EmptyBag
    /\ today = 1
    /\ proc = [p \in Procs |-> IdleProc]
    /\ hist = NoHistory

\* /go <code> delivered to concurrent handlers, over the days.
NextGoConc == (\E p \in Procs : GoStep(p)) \/ NextDay

SpecGoConc == InitGo /\ [][NextGoConc]_vars

\* The catalog of the streak runs: every day is a checkin task and a quiz
\* task.
StreakCatalog == <<"checkin", "quiz">>

\* The streaks a user starts the streak runs with: none, one day short of
\* level 2, one day short of the level past MAX_LEVEL.
StartStreaks == {0, LEVEL_STEP_DAYS - 1, LEVEL_STEP_DAYS * MAX_LEVEL - 1}

\* Midnight in the bot's time zone, in the streak runs.
NextStreakDay ==
    /\ today < MaxStreakDay
    /\ today' = today + 1
    /\ UNCHANGED <<db, task_catalog, daily_tasks, completions, proc, hist>>

\* One step of /checkin or /quiz <answer> handled by process p, without a
\* campaign.
StreakStep(p) ==
    \/ \E uid \in DayUsers : TaskCall(p, "checkin", uid, 0)
    \/ \E uid \in DayUsers, arg \in 0..1 : TaskCall(p, "quiz", uid, arg)
    \/ DailyTasksExist(p)
    \/ CreateSelectCampaign(p)
    \/ CreateSelectCatalog(p)
    \/ CreateInsert(p)
    \/ FindTask(p)
    \/ CompleteTask(p)
    \/ CountTotal(p)
    \/ CountDone(p)
    \/ StreakSelect(p)
    \/ StreakWrite(p)

\* No campaign, the catalog of the streak runs, and the users of DayUsers
\* either new on day 1, or on day 2 with a streak of StartStreaks whose last
\* day is day 1, completed in full.
InitStreak ==
    /\ campaigns = <<>>
    /\ payouts = {}
    /\ withdrawals = <<>>
    /\ task_catalog = StreakCatalog
    /\ proc = [p \in Procs |-> IdleProc]
    /\ \E s \in StartStreaks :
         LET day1 == [i \in 1..Len(StreakCatalog) |->
                         [day |-> 1, idx |-> i, type |-> StreakCatalog[i],
                          campaign_id |-> 0, catalog_id |-> i]]
         IN IF s = 0
            THEN /\ users = [u \in Users |-> NewUser]
                 /\ daily_tasks = <<>>
                 /\ completions = EmptyBag
                 /\ today = 1
                 /\ hist = NoHistory
            ELSE /\ users = [u \in Users |->
                        IF u \in DayUsers
                        THEN [NewUser EXCEPT !.streak_days = s,
                                             !.level = ComputeLevel(s),
                                             !.last_completed_date = 1]
                        ELSE NewUser]
                 /\ daily_tasks = day1
                 /\ completions = SetToBag({<<u, t>> : u \in DayUsers,
                                                       t \in 1..Len(day1)})
                 /\ today = 2
                 /\ hist = [NoHistory EXCEPT !.streak_after =
                              [u \in Users |-> [d \in StreakDays |->
                                  IF u \in DayUsers /\ d = 1 THEN s ELSE 0]]]

\* /checkin and /quiz one at a time, over the days.
NextStreakSeq == StreakStep(1) \/ NextStreakDay

SpecStreakSeq == InitStreak /\ [][NextStreakSeq]_vars

\* /go <code> by user uid on a campaign task of campaign cid that
\* complete_task has just inserted: try_pay_campaign(cid, uid, level).
GoPayCallOn(p, cid, uid) == PayCall(p, "go", cid, uid, users[uid].level)

\* /newcampaign by an admin with a budget of the withdrawal minimum and a
\* goal of one completion: create_campaign inserts the row and commits.
NewCampaignCommand ==
    /\ Len(campaigns) < MaxCampaigns
    /\ campaigns' = Append(campaigns, NewCampaign(MIN_WITHDRAW_USD_CENTS, 1))
    /\ UNCHANGED <<users, payouts, withdrawals, days, proc, hist>>

\* The users who send commands in the runs of /retirar.
Requesters == {1}

\* One step of /retirar or of the payout of /go handled by process p.
RequestStep(p) ==
    \/ \E uid \in Requesters, cid \in 1..Len(campaigns) : GoPayCallOn(p, cid, uid)
    \/ PaySelectCampaign(p)
    \/ PayCompute(p)
    \/ PayWrite(p)
    \/ \E uid \in Requesters : ReqCall(p, uid)
    \/ ReqWrite(p)

\* Withdrawal requests and campaign payouts run by concurrent handlers,
\* with campaigns created by the admin.
NextRequestConc == (\E p \in Procs : RequestStep(p)) \/ NewCampaignCommand

SpecRequestConc == Init /\ [][NextRequestConc]_vars

\* The handler run by process p stops between two of its steps (the bot is
\* killed or restarted, the connection is lost, a statement raises): what
\* it has committed stays, nothing else is written, no reply is sent.
Crash(p) ==
    /\ ~Idle(p)
    /\ Reply(p, "stopped")
    /\ UNCHANGED <<db, days, hist>>

\* /go <code> one at a time, over the days, with handlers that may stop
\* between their steps; the user sends the command again.
NextGoCrash == GoStep(1) \/ Crash(1) \/ NextDay

SpecGoCrash == InitGo /\ [][NextGoCrash]_vars

\* /addtask by an admin: add_catalog_task inserts an active template of
\* type ttype and commits.
AddTaskCommand(ttype) ==
    /\ Len(task_catalog) < MaxTemplates
    /\ task_catalog' = Append(task_catalog, ttype)
    /\ UNCHANGED <<db, daily_tasks, completions, today, proc, hist>>

\* /endcampaign <id> by an admin: end_campaign sets is_active = FALSE and
\* commits.
EndCampaignCommand(cid) ==
    /\ CampaignExists(cid)
    /\ campaigns[cid].is_active
    /\ campaigns' = [campaigns EXCEPT ![cid].is_active = FALSE]
    /\ UNCHANGED <<users, payouts, withdrawals, days, proc, hist>>

\* The types of the templates the admin adds.
AddedTypes == {"checkin", "link"}

\* One command of the admin on the catalog or the campaigns.
AdminCommand ==
    \/ \E ttype \in AddedTypes : AddTaskCommand(ttype)
    \/ NewCampaignCommand
    \/ \E cid \in 1..Len(campaigns) : EndCampaignCommand(cid)

\* One step of /start handled by process p: the day's tasks are generated
\* when the day has none.
StartStep(p) ==
    \/ \E uid \in DayUsers : TaskCall(p, "start", uid, 0)
    \/ DailyTasksExist(p)
    \/ CreateSelectCampaign(p)
    \/ CreateSelectCatalog(p)
    \/ CreateInsert(p)

\* New users, an empty catalog, no campaign, no task generated yet.
InitStart ==
    /\ users = [u \in Users |-> NewUser]
    /\ campaigns = <<>>
    /\ payouts = {}
    /\ withdrawals = <<>>
    /\ task_catalog = <<>>
    /\ daily_tasks = <<>>
    /\ completions = EmptyBag
    /\ today = 1
    /\ proc = [p \in Procs |-> IdleProc]
    /\ hist = NoHistory

\* The days of the runs of /start.
StartDays == {1, 2}

\* Midnight in the bot's time zone, in the runs of /start.
NextStartDay ==
    /\ today + 1 \in StartDays
    /\ today' = today + 1
    /\ UNCHANGED <<db, task_catalog, daily_tasks, completions, proc, hist>>

\* /start and the admin's commands one at a time, over the days.
NextStartSeq == StartStep(1) \/ (Idle(1) /\ AdminCommand) \/ NextStartDay

SpecStartSeq == InitStart /\ [][NextStartSeq]_vars

\* /start handled by concurrent handlers on one day, with the admin's
\* commands between their steps.
NextStartConc == (\E p \in Procs : StartStep(p)) \/ AdminCommand

SpecStartConc == InitStart /\ [][NextStartConc]_vars

\* The ten users of the campaign scenario.
ScenarioUsers == 1..10

\* hist for the users of the set us.
NoHistoryOf(us) ==
    [NoHistory EXCEPT !.lifecycle = [u \in us |-> NoLifecycle],
                      !.last_call = [u \in us |-> NoCall],
                      !.streak_after = [u \in us |-> [d \in StreakDays |-> 0]]]

\* The campaign scenario: ten new users (level 1) and one campaign just
\* created with a budget of 100 cents and a goal of 10 completions.
InitCampaignScenario ==
    /\ users = [u \in ScenarioUsers |-> NewUser]
    /\ campaigns = <<NewCampaign(100, 10)>>
    /\ payouts = {}
    /\ withdrawals = <<>>
    /\ task_catalog = <<>>
    /\ daily_tasks = <<>>
    /\ completions = EmptyBag
    /\ today = 1
    /\ proc = [p \in Procs |-> IdleProc]
    /\ hist = NoHistoryOf(ScenarioUsers)

\* try_pay_campaign(1, uid, users[uid].level) for the users of the scenario,
\* one call after another, in any order.
NextCampaignScenario ==
    \/ \E uid \in ScenarioUsers :
          PayCall(1, "try_pay_campaign", 1, uid, users[uid].level)
    \/ PaySelectCampaign(1)
    \/ PayCompute(1)
    \/ PayWrite(1)

SpecCampaignScenario == InitCampaignScenario /\ [][NextCampaignScenario]_vars

\* The rows a campaign of budget b and goal g can have: every payout is at
\* least MIN_PAYOUT_USD_CENTS, the payout that reaches the budget or the
\* goal deactivates the campaign, and the admin can end it at any time.
CampaignRows(b, g) ==
    {c \in [budget : {b}, goal : {g}, completed_count : 0..g, spent : 0..b,
            is_active : BOOLEAN] :
        /\ c.spent >= c.completed_count * MIN_PAYOUT_USD_CENTS
        /\ c.completed_count = 0 => c.spent = 0
        /\ c.is_active => ~Exhausted(c)}

\* One campaign, in any state of its life.
InitPayoutFormula ==
    /\ users = [u \in Users |-> NewUser]
    /\ \E b \in 1..MaxBudget, g \in 1..MaxGoal :
          \E c \in CampaignRows(b, g) : campaigns = <<c>>
    /\ payouts = {}
    /\ withdrawals = <<>>
    /\ task_catalog = <<>>
    /\ daily_tasks = <<>>
    /\ completions = EmptyBag
    /\ today = 1
    /\ proc = [p \in Procs |-> IdleProc]
    /\ hist = NoHistory

\* compute_campaign_payout(conn, 1, user_level): selects the campaign row and
\* returns the payout (ret).
ComputeCall(user_level) ==
    /\ proc' = [proc EXCEPT ![1] =
                  [Call("compute_campaign_payout") EXCEPT
                      !.status = "ok", !.campaign_id = 1,
                      !.user_level = user_level,
                      !.ret = ComputePayout(campaigns[1], user_level)]]
    /\ UNCHANGED <<db, days, hist>>

\* Calls of compute_campaign_payout for every level.
NextPayoutFormula == \E user_level \in Levels : ComputeCall(user_level)

SpecPayoutFormula == InitPayoutFormula /\ [][NextPayoutFormula]_vars

\* One step of a user's command or of an admin's command on a withdrawal,
\* handled by process p: /checkin and /go with the code of one of today's
\* tasks, /retirar, the payout details, /paywithdraw and /rejectwithdraw.
AccountStep(p) ==
    \/ \E uid \in DayUsers : TaskCall(p, "checkin", uid, 0)
    \/ \E uid \in DayUsers, arg \in 1..TASKS_PER_DAY : TaskCall(p, "go", uid, arg)
    \/ TaskStep(p)
    \/ \E uid \in DayUsers : ReqCall(p, uid)
    \/ ReqWrite(p)
    \/ \E uid \in DayUsers : AttCall(p, uid)
    \/ AttSelect(p)
    \/ AttWrite(p)
    \/ \E wid \in WithdrawalIds : PayWdCall(p, wid)
    \/ PayWdSelectHeld(p)
    \/ PayWdWrite(p)
    \/ \E wid \in WithdrawalIds : RejCall(p, wid)
    \/ RejWrite(p)

\* New users, a catalog of one checkin template, one campaign just created
\* whose single payout is the withdrawal minimum, no task generated yet.
InitAccount ==
    /\ users = [u \in Users |-> NewUser]
    /\ campaigns = <<NewCampaign(MIN_WITHDRAW_USD_CENTS, 1)>>
    /\ payouts = {}
    /\ withdrawals = <<>>
    /\ task_catalog = <<"checkin">>
    /\ daily_tasks = <<>>
    /\ completions = EmptyBag
    /\ today = 1
    /\ proc = [p \in Procs |-> IdleProc]
    /\ hist = NoHistory

\* Task commands and the withdrawal lifecycle of one user, one handler at a
\* time, over the days.
NextAccountSeq == AccountStep(1) \/ NextDay

SpecAccountSeq == InitAccount /\ [][NextAccountSeq]_vars

\* The catalogs of the completion runs: the templates that fill the day
\* beside the campaign task, of any types (two of one type included).
CompleteCatalogs == [1..(TASKS_PER_DAY - 1) -> TaskTypes]

\* New users, one campaign just created, a catalog that fills the day, no
\* task generated yet.
InitCompleteDay ==
    /\ users = [u \in Users |-> NewUser]
    /\ campaigns = <<NewCampaign(MaxBudget, MaxGoal)>>
    /\ payouts = {}
    /\ withdrawals = <<>>
    /\ task_catalog \in CompleteCatalogs
    /\ daily_tasks = <<>>
    /\ completions = EmptyBag
    /\ today = 1
    /\ proc = [p \in Procs |-> IdleProc]
    /\ hist = NoHistory

\* The user sends /checkin.
CheckinCall(p) == \E uid \in DayUsers : TaskCall(p, "checkin", uid, 0)

\* The user sends /quiz with the expected answer.
QuizCall(p) == \E uid \in DayUsers : TaskCall(p, "quiz", uid, 1)

\* The user sends /go with the code of the task at position idx.
GoCall(p, idx) == \E uid \in DayUsers : TaskCall(p, "go", uid, idx)

\* The user's commands with the right answers, one at a time, on one day.
NextCompleteDay ==
    \/ CheckinCall(1)
    \/ QuizCall(1)
    \/ \E idx \in 1..TASKS_PER_DAY : GoCall(1, idx)
    \/ TaskStep(1)

\* Every handler runs to its end, and the user goes on sending each of the
\* commands: /checkin, /quiz with the answer, /go with each of the codes.
FairCompleteDay ==
    /\ WF_vars(TaskStep(1))
    /\ SF_vars(CheckinCall(1))
    /\ SF_vars(QuizCall(1))
    /\ \A idx \in 1..TASKS_PER_DAY : SF_vars(GoCall(1, idx))

SpecCompleteDay == InitCompleteDay /\ [][NextCompleteDay]_vars /\ FairCompleteDay

\* The user's commands with the right answers on one day, delivered to
\* concurrent handlers.
NextCompleteDayConc ==
    \E p \in Procs :
        \/ CheckinCall(p)
        \/ QuizCall(p)
        \/ \E idx \in 1..TASKS_PER_DAY : GoCall(p, idx)
        \/ TaskStep(p)

SpecCompleteDayConc == InitCompleteDay /\ [][NextCompleteDayConc]_vars

\* One step of the payout details, /paywithdraw or /rejectwithdraw handled
\* by process p.
WithdrawalStep(p) ==
    \/ \E uid \in Requesters : AttCall(p, uid)
    \/ AttSelect(p)
    \/ AttWrite(p)
    \/ \E wid \in WithdrawalIds : PayWdCall(p, wid)
    \/ PayWdSelectHeld(p)
    \/ PayWdWrite(p)
    \/ \E wid \in WithdrawalIds : RejCall(p, wid)
    \/ RejWrite(p)

\* Campaign payouts and the whole withdrawal lifecycle of one user run by
\* concurrent handlers, with campaigns created by the admin.
NextUserRowConc ==
    \/ \E p \in Procs : RequestStep(p) \/ WithdrawalStep(p)
    \/ NewCampaignCommand

SpecUserRowConc == Init /\ [][NextUserRowConc]_vars

\* ================================================================ claims
Camp == campaigns[1]

PaidOf(rows) == SumOver(rows, [r \in rows |-> r.paid])

PayReturned(p) == Idle(p) /\ proc[p].op = "try_pay_campaign"

\* C1. Sequential calls of try_pay_campaign on one campaign created with
\* budget > 0 and goal > 0: after every call spent <= budget and
\* completed_count <= goal, every payout row and every amount a paying call
\* returns is at least MIN_PAYOUT_USD_CENTS.
C1_BudgetSafetySequential ==
    /\ Camp.spent <= Camp.budget
    /\ Camp.completed_count <= Camp.goal
    /\ \A r \in payouts : r.paid >= MIN_PAYOUT_USD_CENTS
    /\ \A p \in Procs : PayReturned(p) =>
           proc[p].ret = 0 \/ proc[p].ret >= MIN_PAYOUT_USD_CENTS

\* C1 witness: the budget was smaller than the goal (max_allowed <= 0), the
\* calls paid the floor MIN_PAYOUT_USD_CENTS and the last one used up the
\* budget before the goal was reached.
C1_Witness ==
    /\ PayReturned(1) /\ proc[1].ret = MIN_PAYOUT_USD_CENTS
    /\ Camp.spent = Camp.budget
    /\ Camp.completed_count >= 2
    /\ Camp.completed_count < Camp.goal

\* C2. Concurrent calls for different users: spent <= budget and
\* completed_count <= goal in every committed state.
C2_BudgetSafetyConcurrent ==
    /\ Camp.spent <= Camp.budget
    /\ Camp.completed_count <= Camp.goal

\* Two calls for the same user that both found no payout row: each made its
\* check before the other committed, so they ran concurrently.
SameUserRace(p, q) ==
    /\ p # q
    /\ PayReturned(p) /\ PayReturned(q)
    /\ proc[p].user_id = proc[q].user_id
    /\ proc[p].saw_no_row /\ proc[q].saw_no_row
    /\ ~proc[p].exhausted_at_call /\ ~proc[q].exhausted_at_call

\* C3. Two concurrent try_pay_campaign(campaign, sameUser) calls: exactly one
\* returns a non-zero payout, the user has exactly one payout row of that
\* amount and is credited that amount once, and the campaign counters count
\* every payout row once.
C3_PayoutSingleUse ==
    /\ \A p, q \in Procs : SameUserRace(p, q) =>
           LET uid == proc[p].user_id
               rows == PayoutRows(1, uid)
           IN /\ (proc[p].ret > 0) # (proc[q].ret > 0)
              /\ Cardinality(rows) = 1
              /\ \A r \in rows : r.paid = Max(proc[p].ret, proc[q].ret)
    /\ \A uid \in Users :
           /\ Cardinality(PayoutRows(1, uid)) <= 1
           /\ users[uid].balance = PaidOf(PayoutRows(1, uid))
    /\ Camp.completed_count = Cardinality(payouts)
    /\ Camp.spent = PaidOf(payouts)

\* C3 witness: the second of two racing calls hit the primary key.
C3_Witness ==
    \E p, q \in Procs :
        /\ SameUserRace(p, q)
        /\ proc[p].status = "raised"
        /\ proc[q].ret > 0

\* C8. A campaign created with budget >= goal * MIN_PAYOUT_USD_CENTS, paid
\* sequentially: the remaining budget always covers MIN_PAYOUT_USD_CENTS for
\* every completion still owed, so the budget is never used up before the
\* goal is reached.
C8_GoalReachable ==
    Camp.budget >= Camp.goal * MIN_PAYOUT_USD_CENTS =>
        /\ Camp.budget - Camp.spent >=
               (Camp.goal - Camp.completed_count) * MIN_PAYOUT_USD_CENTS
        /\ (~Camp.is_active \/ Camp.spent >= Camp.budget) =>
               Camp.completed_count >= Camp.goal

\* C8 witness: a bonus payout was cut down to leave exactly MIN_PAYOUT for
\* each completion still owed.
C8_Witness ==
    /\ Camp.budget > Camp.goal * MIN_PAYOUT_USD_CENTS
    /\ Camp.completed_count > 0
    /\ Camp.completed_count < Camp.goal
    /\ Camp.budget - Camp.spent =
           (Camp.goal - Camp.completed_count) * MIN_PAYOUT_USD_CENTS

\* C9. Once completed_count = goal or spent = budget the campaign is
\* inactive, and every try_pay_campaign call made from then on returns 0 and
\* changes no row.
C9_ExhaustedPaysNothing ==
    /\ [](Exhausted(Camp) => ~Camp.is_active)
    /\ [](\A p \in Procs :
            (PayReturned(p) /\ proc[p].exhausted_at_call) =>
                (proc[p].ret = 0 /\ proc[p].status = "ok"))
    /\ [][\A p \in Procs :
            (proc[p].exhausted_at_call /\ proc'[p] # proc[p] /\ ~Idle(p)) =>
                db' = db]_vars

\* C9 witness: a user never paid by the campaign called after it was
\* exhausted and got 0.
C9_Witness ==
    \E p \in Procs :
        /\ PayReturned(p)
        /\ proc[p].exhausted_at_call
        /\ proc[p].saw_no_row

Terminal(status) == status \in {"paid", "rejected"}

\* C4. Once a withdrawal is paid or rejected, no operation changes its
\* status again.
C4_TerminalIsFinal ==
    [][\A wid \in 1..Len(withdrawals) :
          Terminal(withdrawals[wid].status) =>
              withdrawals'[wid].status = withdrawals[wid].status]_vars

\* C5. The users' balance + held, summed, is what the campaigns credited
\* minus what the paid withdrawals took out.
C5_ValueConservation ==
    SumOver(Users, [u \in Users |-> users[u].balance + users[u].held])
        = hist.credited - hist.paid_out

\* C6. A request leaves the user's balance + held unchanged (it moves the
\* amount from balance to held); a request followed by its reject puts
\* balance and held back to their values before the request; a request
\* followed by attach and pay leaves balance as the request left it and held
\* lower by the amount.
C6_LifecycleConservation ==
    \A u \in Users :
        LET l == hist.lifecycle[u]
            amount == withdrawals[l.wid].amount
        IN l.stage # "none" =>
            /\ l.post_balance + l.post_held = l.pre_balance + l.pre_held
            /\ l.post_balance = l.pre_balance - amount
            /\ l.stage \in {"requested", "requested_attached"} =>
                  /\ users[u].balance = l.post_balance
                  /\ users[u].held = l.post_held
            /\ l.stage = "requested_rejected" =>
                  /\ users[u].balance = l.pre_balance
                  /\ users[u].held = l.pre_held
            /\ l.stage = "requested_attached_paid" =>
                  /\ users[u].balance = l.post_balance
                  /\ users[u].held = l.post_held - amount

\* C6 witness: one user's request was rejected, another user's request got
\* its details and was paid.
C6_Witness ==
    \E u, v \in Users :
        /\ hist.lifecycle[u].stage = "requested_rejected"
        /\ hist.lifecycle[u].pre_balance >= MIN_WITHDRAW_USD_CENTS
        /\ hist.lifecycle[v].stage = "requested_attached_paid"
        /\ withdrawals[hist.lifecycle[v].wid].status = "paid"

\* C7. Of a pay and a reject (two pays, two rejects) running concurrently on
\* one withdrawal at most one succeeds, and the one that fails changes no row.
C7_PayRejectRace ==
    /\ [](~hist.both_ok)
    /\ [][\A p \in Procs :
            (proc[p].pc \in {"paywd_write", "rej_write"}
                /\ proc'[p].status = "failed") => db' = db]_vars

\* Process p ends, with this step, a call of complete_task followed by
\* apply_streak_if_day_completed.
CompletionReturns(p) ==
    /\ proc[p].pc \in {"count_done", "streak_select", "streak_write"}
    /\ proc'[p].pc = "idle"

\* C10. When a user's call of complete_task followed by
\* apply_streak_if_day_completed is for the same daily task as that user's
\* call before it, the call reports not inserted, there is exactly one
\* task_completions row of (user, task), and the user's streak_days, level,
\* last_completed_date and balance are what the call before left.
C10_IdempotentCompletion ==
    [][\A p \in Procs :
          LET uid == proc[p].user_id
              tid == proc[p].task_id
              first == hist.last_call[uid]
          IN (CompletionReturns(p) /\ first.task_id = tid) =>
                /\ ~proc[p].inserted
                /\ CopiesIn(<<uid, tid>>, completions') = 1
                /\ users'[uid].streak_days = first.streak_days
                /\ users'[uid].level = first.level
                /\ users'[uid].last_completed_date = first.last_completed_date
                /\ users'[uid].balance = first.balance]_vars

\* C10 witness: a user has just repeated the completion of the campaign
\* task that paid them, on the second day of a streak.
C10_Witness ==
    \E u \in Users :
        /\ hist.last_call[u].repeat
        /\ hist.last_call[u].streak_days = 2
        /\ hist.last_call[u].balance > 0
        /\ daily_tasks[hist.last_call[u].task_id].type = "campaign_link"
        /\ \E r \in payouts : r.user_id = u

\* The payout rows of user uid, of every campaign.
PayoutRowsOf(uid) == {r \in payouts : r.user_id = uid}

\* The days all of whose tasks user uid has completed.
CompletedDays(uid) ==
    {d \in Days : /\ TasksOf(d) # {}
                  /\ \A t \in TasksOf(d) : BagIn(<<uid, t>>, completions)}

\* C11. Of the handlers that process a completion of one (user, task), /go
\* with the right code delivered more than once, exactly one sees inserted =
\* True; the user has at most one payout row per campaign and the balance is
\* the sum of those rows; and the streak has advanced at most once for each
\* day the user has completed.
C11_DuplicateDelivery ==
    /\ \A key \in BagToSet(completions) \cup BagToSet(hist.inserted_seen) :
            /\ CopiesIn(key, completions) = 1
            /\ CopiesIn(key, hist.inserted_seen) = 1
    /\ \A u \in Users :
            /\ \A c \in 1..Len(campaigns) : Cardinality(PayoutRows(c, u)) <= 1
            /\ users[u].balance = PaidOf(PayoutRowsOf(u))
            /\ users[u].streak_days <= Cardinality(CompletedDays(u))

\* C11 witness: the day is the campaign task alone, it is the second day of
\* the streak, the user was paid, and a handler that saw inserted = False is
\* about to write the streak that a concurrent handler has just written.
C11_Witness ==
    \E q \in Procs :
        LET u == proc[q].user_id
            t == proc[q].task_id
        IN /\ proc[q].pc = "streak_write"
           /\ ~proc[q].inserted
           /\ daily_tasks[t].type = "campaign_link"
           /\ TasksOf(proc[q].day) = {t}
           /\ users[u].last_completed_date = proc[q].day
           /\ users[u].streak_days = 2
           /\ PayoutRowsOf(u) # {}
           /\ CopiesIn(<<u, t>>, hist.inserted_seen) = 1

\* User uid has completed every task of day d, and the day has tasks.
AllDone(uid, d) ==
    /\ TasksOf(d) # {}
    /\ \A t \in TasksOf(d) : BagIn(<<uid, t>>, completions)

\* C12 (streak continuity): with the commands handled one at a time, a day
\* is counted in the streak exactly when the user completed all its tasks
\* (once the handler of the last task has returned); the streak after a
\* counted day is the streak after the day before plus 1 when that day was
\* counted too, and 1 when it was not (a skipped day resets the streak); and
\* the user's streak_days is the streak after the last counted day.
C12_StreakContinuity ==
    \A u \in DayUsers :
        LET after == hist.streak_after[u]
            last_done == users[u].last_completed_date
        IN /\ \A d \in StreakDays :
                /\ after[d] # 0 => AllDone(u, d)
                /\ (AllDone(u, d) /\ Idle(1)) => after[d] # 0
           /\ \A d \in StreakDays \ {1} :
                after[d] # 0 =>
                    after[d] = IF after[d - 1] # 0 THEN after[d - 1] + 1 ELSE 1
           /\ last_done # 0 => users[u].streak_days = after[last_done]

\* Days 1 and 2 completed in full with the streak grown by 1, nothing
\* completed on day 3, day 4 completed in full and the streak back to 1.
C12_Witness ==
    \E u \in DayUsers :
        LET after == hist.streak_after[u]
        IN /\ AllDone(u, 1) /\ AllDone(u, 2) /\ AllDone(u, 4)
           /\ after[1] > 1
           /\ after[2] = after[1] + 1
           /\ \A t \in TasksOf(3) : ~BagIn(<<u, t>>, completions)
           /\ after[4] = 1
           /\ users[u].last_completed_date = 4
           /\ users[u].streak_days = 1
           /\ Idle(1)

\* C13 (level derived from streak): in every state, for every user,
\* level = min(max(1 + streak_days div LEVEL_STEP_DAYS, 1), MAX_LEVEL), so
\* that 1 <= level <= MAX_LEVEL; every committed write of the streak or of
\* the level leaves the two in that relation.
C13_LevelFromStreak ==
    \A u \in Users :
        /\ users[u].level =
              Min(Max(1 + (users[u].streak_days \div LEVEL_STEP_DAYS), 1), MAX_LEVEL)
        /\ users[u].level \in 1..MAX_LEVEL

\* The update of day 2 wrote a streak whose level is past MAX_LEVEL, and the
\* level is MAX_LEVEL.
C13_Witness ==
    \E u \in DayUsers :
        /\ hist.streak_after[u][2] = LEVEL_STEP_DAYS * MAX_LEVEL
        /\ users[u].streak_days = LEVEL_STEP_DAYS * MAX_LEVEL
        /\ 1 + (users[u].streak_days \div LEVEL_STEP_DAYS) > MAX_LEVEL
        /\ users[u].level = MAX_LEVEL

\* The withdrawals of user uid in status awaiting_details.
AwaitingDetails(uid) ==
    {w \in 1..Len(withdrawals) :
        /\ withdrawals[w].user_id = uid
        /\ withdrawals[w].status = "awaiting_details"}

\* C14 (withdrawal exclusivity): under any interleaving of concurrent
\* requests of a user with campaign payouts crediting that user, at most one
\* withdrawal of the user is in status awaiting_details, and a request made
\* while pending_withdraw_id is set creates nothing.
C14_WithdrawalExclusivity ==
    /\ [](\A u \in Users : Cardinality(AwaitingDetails(u)) <= 1)
    /\ [][\A p \in Procs, u \in Users :
            (ReqCall(p, u) /\ users[u].pending_withdraw_id # 0)
            => /\ proc'[p].status = "pending_exists"
               /\ db' = db]_vars

\* C15 (request aborts atomically): when create_withdrawal_request runs its
\* conditional UPDATE with the balance below the requested amount, it
\* raises and leaves users, withdrawals, campaigns and payouts as they were;
\* when it does not raise, the whole amount moves from balance to held, the
\* withdrawal is inserted and pending_withdraw_id is set, in one commit.
C15_RequestAbortsAtomically ==
    [][\A p \in Procs :
        (proc[p].pc = "req_write" /\ proc'[p].pc # "req_write") =>
            LET uid == proc[p].user_id
                amount_cents == proc[p].amount
            IN IF users[uid].balance < amount_cents
               THEN /\ proc'[p].status = "raised"
                    /\ db' = db
               ELSE /\ proc'[p].status = "created"
                    /\ users'[uid].balance = users[uid].balance - amount_cents
                    /\ users'[uid].held = users[uid].held + amount_cents
                    /\ Len(withdrawals') = Len(withdrawals) + 1
                    /\ users'[uid].pending_withdraw_id = Len(withdrawals')]_vars

\* A request has raised: the user's other request committed after this one
\* read the balance, and the balance is below the amount read.
C15_Witness ==
    \E p \in Procs :
        /\ proc[p].op = "retirar"
        /\ proc[p].status = "raised"
        /\ \E u \in Requesters :
              /\ users[u].balance < users[u].held
              /\ AwaitingDetails(u) # {}

\* C16 (balances never go negative): in every state, including those
\* reached by concurrent pay and reject operations on different withdrawals
\* of the same user, every user has balance >= 0 and held >= 0.
C16_NonNegativeBalances ==
    \A u \in Users :
        /\ users[u].balance >= 0
        /\ users[u].held >= 0

\* No handler is running.
Quiescent == \A p \in Procs : Idle(p)

\* C17 (completion and streak atomic): no state left behind by the
\* handlers, one that stopped between its steps included, has a user with a
\* completion for every task of today while last_completed_date is not
\* today.
C17_CompletionStreakAtomic ==
    \A u \in DayUsers :
        (Quiescent /\ AllDone(u, today)) => users[u].last_completed_date = today

\* C18 (completion and payout atomic): once /go of a user on a campaign task
\* has returned, after a handler that stopped and a retry included, the
\* user's completion of the task comes with the user's payout row of the
\* campaign, unless the campaign is ended or exhausted.
C18_CompletionPayoutAtomic ==
    \A u \in DayUsers, t \in 1..Len(daily_tasks) :
        LET cid == daily_tasks[t].campaign_id
        IN (/\ Quiescent
            /\ daily_tasks[t].type = "campaign_link"
            /\ BagIn(<<u, t>>, completions)
            /\ hist.last_call[u].task_id = t
            /\ campaigns[cid].is_active
            /\ ~Exhausted(campaigns[cid]))
           => PayoutRows(cid, u) # {}

\* The stored tasks of day d.
DayRows(d) == {daily_tasks[t] : t \in TasksOf(d)}

\* The number of tasks one generation creates from a campaign (0: none) and
\* ncat active templates.
QuotaOf(cid, ncat) == Min(TASKS_PER_DAY, (IF cid # 0 THEN 1 ELSE 0) + ncat)

\* C19 (ensureDay is idempotent): with the commands handled one at a time,
\* the generation for a day without tasks creates exactly
\* min(TASKS_PER_DAY, (1 if a campaign is active else 0) + number of active
\* templates) tasks at positions 1..n; a day that has tasks keeps them
\* unchanged, and a later attempt for it goes no further than
\* daily_tasks_exist.
C19_EnsureDayIdempotent ==
    [][/\ \A d \in StartDays : DayRows(d) # {} => DayRows(d)' = DayRows(d)
       /\ \A p \in Procs :
            /\ (proc[p].pc = "create_insert" /\ proc'[p].pc # "create_insert") =>
                  \A d \in StartDays, n \in 0..TASKS_PER_DAY :
                      (/\ d = proc[p].day
                       /\ n = QuotaOf(ActiveCampaign, Len(task_catalog)))
                      => /\ DayRows(d) = {}
                         /\ {r.idx : r \in DayRows(d)'} = 1..n
                         /\ Cardinality(TasksOf(d)') = n
            /\ (proc[p].pc = "tasks_exist" /\ proc'[p].pc # "tasks_exist"
                   /\ TasksOf(proc[p].day) # {}) =>
                  /\ proc'[p].pc = "idle"
                  /\ daily_tasks' = daily_tasks]_vars

\* Day 1 was generated from fewer candidates than day 2; day 2 was generated
\* from a campaign and more templates than the free positions, and has
\* TASKS_PER_DAY tasks; a later /start of day 2 is at daily_tasks_exist.
C19_Witness ==
    \E p \in Procs :
        /\ proc[p].pc = "tasks_exist"
        /\ proc[p].day = 2
        /\ ActiveCampaign # 0
        /\ 1 + Len(task_catalog) > TASKS_PER_DAY
        /\ Cardinality(TasksOf(2)) = TASKS_PER_DAY
        /\ \E t \in TasksOf(2) : daily_tasks[t].type = "campaign_link"
        /\ TasksOf(1) # {}
        /\ Cardinality(TasksOf(1)) < TASKS_PER_DAY

\* The stored tasks of day d are what one run of create_daily_tasks produces
\* from campaign cid (0: none) and the first ncat templates of the catalog:
\* the campaign task first, then distinct templates, at positions 1..n.
OneRunOutput(d, cid, ncat) ==
    LET rows == DayRows(d)
        head == IF cid # 0 THEN 1 ELSE 0
    IN /\ Cardinality(TasksOf(d)) = QuotaOf(cid, ncat)
       /\ {r.idx : r \in rows} = 1..QuotaOf(cid, ncat)
       /\ \A r \in rows :
            IF r.idx <= head
            THEN r.type = "campaign_link" /\ r.campaign_id = cid
            ELSE /\ r.catalog_id \in 1..ncat
                 /\ r.type = task_catalog[r.catalog_id]
                 /\ r.campaign_id = 0
       /\ \A r, q \in rows :
            (r.idx > head /\ q.idx > head /\ r.idx # q.idx)
                => r.catalog_id # q.catalog_id

\* C20 (racing generators converge): with concurrent handlers generating the
\* same day and the admin adding templates and creating or ending campaigns
\* between their steps, the stored tasks of the day are what one run of
\* create_daily_tasks produces from one campaign and one catalog that
\* existed.
C20_RacingGeneratorsConverge ==
    \A d \in StartDays :
        TasksOf(d) # {} =>
            \E cid \in 0..Len(campaigns), ncat \in 0..Len(task_catalog) :
                OneRunOutput(d, cid, ncat)

\* The campaigns with is_active = TRUE.
ActiveCampaigns == {c \in 1..Len(campaigns) : campaigns[c].is_active}

\* C21 (single active campaign): creating a campaign deactivates every other
\* active campaign, so that in every state at most one campaign has
\* is_active = TRUE.
C21_SingleActiveCampaign ==
    Cardinality(ActiveCampaigns) <= 1

\* C22 (concrete campaign scenario): with budget 100, goal 10 and ten
\* level-1 users paid one after another, every payout is 10; after the
\* tenth, spent = 100 = budget, completed_count = 10 and the campaign is
\* inactive (and it is active until then).
C22_CampaignScenario ==
    /\ \A r \in payouts : r.paid = 10
    /\ Camp.completed_count = Cardinality(payouts)
    /\ Camp.spent = PaidOf(payouts)
    /\ \A u \in ScenarioUsers : users[u].balance = PaidOf(PayoutRowsOf(u))
    /\ Camp.is_active <=> Cardinality(payouts) < 10
    /\ Cardinality(payouts) = 10 =>
          /\ Camp.spent = 100
          /\ Camp.spent = Camp.budget
          /\ Camp.completed_count = 10

\* The ten users have been paid.
C22_Witness ==
    /\ \A u \in ScenarioUsers : users[u].balance = 10 /\ PayoutRows(1, u) # {}
    /\ ~Camp.is_active
    /\ PayReturned(1)
    /\ proc[1].ret = 10

\* The tasks of day d of type ttype.
TasksOfType(d, ttype) == {t \in TasksOf(d) : daily_tasks[t].type = ttype}

\* C23 (concrete streak scenario): the day's tasks are one checkin and one
\* quiz and the user is new.  While only the checkin is completed the day is
\* not done and the streak is 0 (no day counted); once the quiz is completed
\* too and its handler has returned, the day is done, the streak is 1, the
\* level is 1 and last_completed_date is that day.
C23_StreakScenario ==
    \A u \in DayUsers, ck \in TasksOfType(1, "checkin"), qz \in TasksOfType(1, "quiz") :
        (today = 1 /\ TasksOf(1) = {ck, qz}) =>
            /\ (BagIn(<<u, ck>>, completions) /\ ~BagIn(<<u, qz>>, completions)) =>
                  /\ ~AllDone(u, 1)
                  /\ users[u].streak_days = 0
                  /\ users[u].level = 1
                  /\ users[u].last_completed_date = 0
                  /\ (Idle(1) /\ hist.last_call[u].task_id = ck) =>
                        /\ hist.last_call[u].streak_days = 0
                        /\ hist.last_call[u].last_completed_date = 0
            /\ (/\ BagIn(<<u, ck>>, completions)
                /\ BagIn(<<u, qz>>, completions)
                /\ Idle(1)) =>
                  /\ AllDone(u, 1)
                  /\ users[u].streak_days = 1
                  /\ users[u].level = 1
                  /\ users[u].last_completed_date = 1
                  /\ hist.streak_after[u][1] = 1

\* The new user completed the checkin, then the quiz, and the handler of the
\* quiz returned with streak 1, level 1 and the day as last completed date.
C23_Witness ==
    \E u \in DayUsers, ck \in TasksOfType(1, "checkin"), qz \in TasksOfType(1, "quiz") :
        /\ today = 1
        /\ TasksOf(1) = {ck, qz}
        /\ BagIn(<<u, ck>>, completions)
        /\ BagIn(<<u, qz>>, completions)
        /\ Idle(1)
        /\ proc[1].op = "quiz"
        /\ hist.last_call[u].task_id = qz
        /\ ~hist.last_call[u].repeat
        /\ hist.last_call[u].streak_days = 1
        /\ hist.last_call[u].level = 1
        /\ hist.last_call[u].last_completed_date = 1

\* The payout rows of campaign cid.
PayoutRowsFor(cid) == {r \in payouts : r.campaign_id = cid}

\* C24 (payout per campaign lifetime): a user who was paid by a campaign and
\* completes its task of a later day gets the completion but no second
\* payout: there is one payout row per (campaign, user), the balance is the
\* sum of the user's rows, the campaign's spent and completed_count are the
\* sum and the number of its rows, and no /go fails on the payout.
C24_PayoutPerCampaignLifetime ==
    /\ \A u \in Users :
          /\ \A c \in 1..Len(campaigns) : Cardinality(PayoutRows(c, u)) <= 1
          /\ users[u].balance = PaidOf(PayoutRowsOf(u))
    /\ \A c \in 1..Len(campaigns) :
          /\ campaigns[c].spent = PaidOf(PayoutRowsFor(c))
          /\ campaigns[c].completed_count = Cardinality(PayoutRowsFor(c))
    /\ \A p \in Procs : proc[p].status # "raised"

\* The user completed the campaign's task of day 1 and its task of day 2,
\* the /go of day 2 has returned, and the user has the one payout row, with
\* the balance of the first payout.
C24_Witness ==
    \E u \in DayUsers, t1 \in TasksOf(1), t2 \in TasksOf(2) :
        /\ daily_tasks[t1].type = "campaign_link"
        /\ daily_tasks[t2].type = "campaign_link"
        /\ daily_tasks[t1].campaign_id = daily_tasks[t2].campaign_id
        /\ BagIn(<<u, t1>>, completions)
        /\ BagIn(<<u, t2>>, completions)
        /\ Idle(1)
        /\ proc[1].op = "go"
        /\ proc[1].status = "ok"
        /\ hist.last_call[u].task_id = t2
        /\ Cardinality(PayoutRowsOf(u)) = 1
        /\ users[u].balance > 0
        /\ hist.last_call[u].balance = PaidOf(PayoutRowsOf(u))

\* clamp(x, lo, hi): x brought into lo..hi; the lower bound wins when
\* hi < lo.
Clamp(x, lo, hi) == Max(lo, Min(x, hi))

\* The payout of the formula for the campaign row c and the level.
FormulaPayout(c, user_level) ==
    LET remainingBudget == c.budget - c.spent
        remainingNeeded == c.goal - c.completed_count
        base == Max(MIN_PAYOUT_USD_CENTS, remainingBudget \div remainingNeeded)
        bonus == Clamp(user_level - 1, 0, 5)
        maxAllowed == remainingBudget - (remainingNeeded - 1) * MIN_PAYOUT_USD_CENTS
    IN IF remainingBudget <= 0 \/ remainingNeeded <= 0 \/ ~c.is_active
       THEN 0
       ELSE Clamp(base + bonus, MIN_PAYOUT_USD_CENTS, maxAllowed)

\* A call of compute_campaign_payout has returned.
ComputeReturned == Idle(1) /\ proc[1].op = "compute_campaign_payout"

\* C25 (payout formula): for every campaign state and level,
\* compute_campaign_payout returns clamp(base + bonus, MIN_PAYOUT, maxAllowed)
\* when budget and goal remain and the campaign is active, never more than
\* the remaining budget, and 0 otherwise.
C25_PayoutFormula ==
    ComputeReturned =>
        /\ proc[1].ret = FormulaPayout(Camp, proc[1].user_level)
        /\ proc[1].ret <= Max(0, Camp.budget - Camp.spent)
        /\ (~Camp.is_active \/ Exhausted(Camp)) => proc[1].ret = 0

\* A call returned a payout that maxAllowed cut below base + bonus.
C25_Witness ==
    /\ ComputeReturned
    /\ Camp.is_active
    /\ Camp.spent > 0
    /\ proc[1].ret >= MIN_PAYOUT_USD_CENTS
    /\ proc[1].ret = (Camp.budget - Camp.spent)
                        - (Camp.goal - Camp.completed_count - 1) * MIN_PAYOUT_USD_CENTS
    /\ proc[1].ret < (Camp.budget - Camp.spent) \div (Camp.goal - Camp.completed_count)
                        + (proc[1].user_level - 1)
    /\ proc[1].user_level - 1 <= 5

\* Process p commits, with this step, the UPDATE of
\* apply_streak_if_day_completed.
StreakWrites(p) == proc[p].pc = "streak_write" /\ proc'[p].pc # "streak_write"

\* C26 (streak credited at most once per day): a call of
\* apply_streak_if_day_completed that reads last_completed_date = day writes
\* nothing, and while last_completed_date is the day, the update of a
\* concurrent call for that day changes nothing in the user's row: the
\* streak moves one step for the day, never two.
C26_StreakOncePerDay ==
    [][\A p \in Procs :
          /\ (proc[p].pc = "streak_select" /\ proc'[p].pc # "streak_select"
                /\ users[proc[p].user_id].last_completed_date = proc[p].day)
             => users' = users /\ proc'[p].pc = "idle"
          /\ (StreakWrites(p)
                /\ users[proc[p].user_id].last_completed_date = proc[p].day)
             => users' = users]_vars


\* Process p commits, with this step, a successful create_withdrawal_request.
RequestCommits(p) ==
    /\ proc[p].pc = "req_write"
    /\ proc'[p].pc = "idle"
    /\ proc'[p].status = "created"

\* C27 (a request takes the full balance): in the state right after a
\* successful withdrawal request commits, the balance of the requesting user
\* is 0, whatever payouts were credited while the request ran.
C27_RequestTakesFullBalance ==
    [][\A p \in Procs :
          RequestCommits(p) => users'[proc[p].user_id].balance = 0]_vars


\* Process p takes, with this step, a call of the text-message handler that
\* returns none: get_user found no pending_withdraw_id, or the SELECT of
\* attach_withdrawal_details found none.
AttachReturnsNone(p) ==
    /\ proc[p].pc \in {"idle", "att_select"}
    /\ proc'[p] # proc[p]
    /\ proc'[p].op = "attach_details"
    /\ proc'[p].pc = "idle"
    /\ proc'[p].status = "none"

\* C28 (attach details): attach_withdrawal_details for a user whose
\* pending_withdraw_id is set puts that withdrawal in status 'pending', clears
\* the user's pending_withdraw_id and changes nothing else (balance and held
\* stay); for a user with no pending_withdraw_id it returns none and changes
\* no row.
C28_AttachDetails ==
    [][\A p \in Procs :
          /\ \A u \in Users :
                (Idle(p) /\ proc'[p].op = "attach_details" /\ proc'[p].user_id = u)
                => /\ users[u].pending_withdraw_id # 0
                   /\ proc'[p].pc = "att_select"
          /\ (proc[p].pc = "att_select" /\ proc'[p].pc # "att_select")
             => LET wid == users[proc[p].user_id].pending_withdraw_id
                IN IF wid = 0
                   THEN AttachReturnsNone(p)
                   ELSE proc'[p].pc = "att_write" /\ proc'[p].wid = wid
          /\ (proc[p].pc = "att_write" /\ proc'[p].pc # "att_write")
             => /\ proc'[p].status = "ok"
                /\ withdrawals' =
                      [withdrawals EXCEPT ![proc[p].wid].status = "pending"]
                /\ users' =
                      [users EXCEPT ![proc[p].user_id].pending_withdraw_id = 0]
                /\ UNCHANGED <<campaigns, payouts>>
          /\ AttachReturnsNone(p) => UNCHANGED db]_vars

\* An attach has committed: the withdrawal is pending, the user's
\* pending_withdraw_id is cleared and the amount is still held.
C28_Witness ==
    \E p \in Procs, wid \in 1..Len(withdrawals) :
        /\ proc[p].op = "attach_details"
        /\ proc[p].pc = "idle"
        /\ proc[p].status = "ok"
        /\ withdrawals[wid].status = "pending"
        /\ users[withdrawals[wid].user_id].pending_withdraw_id = 0
        /\ users[withdrawals[wid].user_id].held = withdrawals[wid].amount
        /\ users[withdrawals[wid].user_id].balance = 0

\* Process p commits, with this step, a successful reject.
RejectCommits(p) ==
    /\ proc[p].pc = "rej_write"
    /\ proc'[p].pc = "idle"
    /\ proc'[p].status = "ok"

\* C29 (reject is a full reversal): every successful reject decreases the
\* user's held by exactly the withdrawal's amount and increases the balance by
\* exactly that amount; held is never clamped.
C29_RejectIsFullReversal ==
    [][\A p \in Procs :
          RejectCommits(p)
          => LET uid == proc[p].user_id
                 amount == withdrawals[proc[p].wid].amount
             IN /\ users'[uid].held = users[uid].held - amount
                /\ users'[uid].balance = users[uid].balance + amount]_vars

\* C30 (campaign deactivation is terminal): spent and completed_count of a
\* campaign never decrease, and once is_active is FALSE no step sets it back
\* to TRUE or changes spent or completed_count.
C30_DeactivationIsTerminal ==
    [][\A cid \in 1..Len(campaigns) :
          /\ cid <= Len(campaigns')
          /\ campaigns'[cid].spent >= campaigns[cid].spent
          /\ campaigns'[cid].completed_count >= campaigns[cid].completed_count
          /\ ~campaigns[cid].is_active
             => /\ ~campaigns'[cid].is_active
                /\ campaigns'[cid].spent = campaigns[cid].spent
                /\ campaigns'[cid].completed_count =
                      campaigns[cid].completed_count]_vars

\* Process p commits, with this step, the first tasks of its day.
FirstGeneration(p) ==
    /\ proc[p].pc = "create_insert"
    /\ proc'[p].pc # "create_insert"
    /\ TasksOf(proc[p].day) = {}
    /\ daily_tasks' # daily_tasks

\* C31 (campaign priority in generation): when a day's tasks are first
\* generated while a campaign is active, position 1 of the day is the
\* campaign task of that campaign and every other position holds a template
\* of the active catalog.
C31_CampaignPriority ==
    [][\A p \in Procs :
          FirstGeneration(p)
          => \A t \in 1..Len(daily_tasks') :
                daily_tasks'[t].day = proc[p].day
                => /\ \A c \in ActiveCampaigns :
                         daily_tasks'[t].idx = 1
                         => /\ daily_tasks'[t].type = "campaign_link"
                            /\ daily_tasks'[t].campaign_id = c
                   /\ (ActiveCampaigns # {} /\ daily_tasks'[t].idx # 1)
                      => /\ daily_tasks'[t].campaign_id = 0
                         /\ daily_tasks'[t].catalog_id \in 1..Len(task_catalog)
                         /\ daily_tasks'[t].type =
                               task_catalog[daily_tasks'[t].catalog_id]]_vars

\* C32 (sampling without replacement): no catalog template is at two
\* positions of a day and a day has at most TASKS_PER_DAY tasks, also when
\* concurrent generators of the day took different snapshots.
C32_NoTemplateTwice ==
    \A d \in Days :
        /\ Cardinality(TasksOf(d)) <= TASKS_PER_DAY
        /\ \A t, o \in TasksOf(d) :
              (t # o /\ daily_tasks[t].catalog_id # 0)
              => daily_tasks[t].catalog_id # daily_tasks[o].catalog_id

\* The handler of process p is at its SELECT of the task, the day has a task
\* of the command's type, and the answer of /quiz differs from the expected
\* one or the code of /go is the code of no link or campaign task of the day.
WrongAnswer(p) ==
    /\ proc[p].pc = "find_task"
    /\ \/ /\ proc[p].op = "quiz"
          /\ proc[p].arg # 1
          /\ \E t \in TasksOf(proc[p].day) : daily_tasks[t].type = "quiz"
       \/ /\ proc[p].op = "go"
          /\ \E t \in TasksOf(proc[p].day) :
                daily_tasks[t].type \in {"link", "campaign_link"}
          /\ \A t \in TasksOf(proc[p].day) :
                daily_tasks[t].type \in {"link", "campaign_link"}
                => daily_tasks[t].idx # proc[p].arg

\* C33 (wrong answers change nothing): a /quiz with a wrong answer and a /go
\* with a code that matches no task of today reply "wrong", and no step of
\* such a handler, from its call to its reply, writes a completion, a payout,
\* a user's row or a campaign's counters.
C33_WrongAnswersChangeNothing ==
    [][\A p \in Procs :
          /\ (WrongAnswer(p) /\ proc'[p] # proc[p])
             => /\ proc'[p].pc = "idle"
                /\ proc'[p].status = "wrong"
          /\ (/\ proc[p].op \in {"quiz", "go"}
              /\ proc[p].pc \in {"tasks_exist", "create_select_campaign",
                                 "create_select_catalog", "create_insert",
                                 "find_task"}
              /\ proc'[p] # proc[p])
             => UNCHANGED <<users, campaigns, payouts, completions>>
          /\ (proc'[p] # proc[p] /\ proc'[p].pc = "idle"
                /\ proc'[p].status = "wrong")
             => /\ proc[p].pc = "find_task"
                /\ UNCHANGED <<users, campaigns, payouts, completions>>]_vars

\* A /quiz with a wrong answer has been refused on a day on which the user
\* already holds a campaign payout.
C33_Witness ==
    \E p \in Procs, u \in DayUsers :
        /\ proc[p].op = "quiz"
        /\ proc[p].pc = "idle"
        /\ proc[p].status = "wrong"
        /\ users[u].balance > 0
        /\ \E t \in TasksOf(today) : daily_tasks[t].type = "quiz"

\* The streak fields of a users row.
StreakFields(user) ==
    <<user.streak_days, user.level, user.last_completed_date>>

\* The money fields of a users row.
MoneyFields(user) == <<user.balance, user.held, user.pending_withdraw_id>>

\* C34 (the streak changes in one place only): streak_days, level and
\* last_completed_date of a user change only in the commit of
\* apply_streak_if_day_completed for that user (payouts, withdrawal request,
\* attach, pay, reject and ensure_user leave them), and that commit leaves
\* balance and held of every user unchanged.
C34_StreakFrame ==
    [][/\ \A u \in Users :
             StreakFields(users'[u]) # StreakFields(users[u])
             => \E p \in Procs : StreakWrites(p) /\ proc[p].user_id = u
       /\ \A p \in Procs :
             StreakWrites(p)
             => \A u \in Users : MoneyFields(users'[u]) = MoneyFields(users[u])]_vars

\* The user's streak was credited and a payout of the user has been
\* requested, paid out or rejected.
C34_Witness ==
    \E u \in DayUsers, wid \in 1..Len(withdrawals) :
        /\ users[u].streak_days >= 1
        /\ users[u].last_completed_date = today
        /\ withdrawals[wid].user_id = u
        /\ withdrawals[wid].status \in {"paid", "rejected"}

\* C35 (pending_withdraw_id is never stale): a user's pending_withdraw_id,
\* when set, is the id of a withdrawal of that user in status
\* awaiting_details.
C35_PendingIdNeverStale ==
    \A u \in Users :
        users[u].pending_withdraw_id # 0
        => /\ WithdrawalExists(users[u].pending_withdraw_id)
           /\ withdrawals[users[u].pending_withdraw_id].user_id = u
           /\ withdrawals[users[u].pending_withdraw_id].status = "awaiting_details"

\* The user's withdrawals that hold funds: awaiting_details or pending.
OpenWithdrawals(u) ==
    {w \in 1..Len(withdrawals) :
        /\ withdrawals[w].user_id = u
        /\ withdrawals[w].status \in {"awaiting_details", "pending"}}

\* C36 (held funds match the open withdrawals): every user's held is the sum
\* of the amounts of the user's withdrawals in status awaiting_details or
\* pending.
C36_HeldMatchesOpenWithdrawals ==
    \A u \in Users :
        users[u].held =
            SumOver(OpenWithdrawals(u), [w \in 1..Len(withdrawals) |->
                                            withdrawals[w].amount])

\* C37 (campaign counters match the payout facts): in every committed state,
\* spent of every campaign is the sum of the amounts of its campaign_payouts
\* rows and completed_count is their number, and what campaigns have
\* credited to a user (the user's balance, where nothing else moves it) is
\* the sum of the user's payout rows.
C37_CountersMatchPayouts ==
    /\ \A cid \in 1..Len(campaigns) :
          /\ campaigns[cid].spent = PaidOf(PayoutRowsFor(cid))
          /\ campaigns[cid].completed_count = Cardinality(PayoutRowsFor(cid))
    /\ \A u \in Users : users[u].balance = PaidOf(PayoutRowsOf(u))
    /\ hist.credited = PaidOf(payouts)

\* Two concurrent calls for different users have both paid: the campaign
\* has two payout rows.
C37_Witness ==
    /\ PayReturned(1) /\ PayReturned(2)
    /\ proc[1].saw_no_row /\ proc[2].saw_no_row
    /\ proc[1].ret > 0 /\ proc[2].ret > 0
    /\ proc[1].user_id # proc[2].user_id
    /\ Cardinality(PayoutRowsFor(1)) = 2
    /\ Camp.completed_count = 2

\* C38 (every day is completable): whatever task set the generator
\* produced, a user who goes on sending /checkin, /quiz with the answer and
\* /go with the codes comes to a state where all_tasks_done is true for the
\* day.
C38_EveryDayCompletable ==
    \A u \in DayUsers : <>AllDone(u, 1)

\* C39 (concurrent last completions still credit the day): with the user's
\* completions handled by concurrent handlers, once the handlers have
\* finished and every task of the day is completed, last_completed_date is
\* the day and the new user's streak is 1.
C39_ConcurrentLastCompletions ==
    \A u \in DayUsers :
        (Quiescent /\ AllDone(u, 1))
        => /\ users[u].last_completed_date = 1
           /\ users[u].streak_days = 1

\* The last two completions were handled concurrently and both handlers saw
\* the day done: one has credited the day and returned, the other has read
\* the row before that commit and is about to write.
C39_Witness ==
    \E u \in DayUsers, p, q \in Procs :
        /\ AllDone(u, 1)
        /\ users[u].last_completed_date = 1
        /\ proc[p].pc = "idle" /\ proc[p].status = "ok"
        /\ proc[q].pc = "streak_write"
        /\ proc[q].user_id = u
        /\ proc[q].day = 1

\* A handler of try_pay_campaign for user u is running on process q: it has
\* computed its payout and its INSERT will find no row of the user.
PayoutInFlight(q, u) ==
    /\ proc[q].pc = "pay_write"
    /\ proc[q].user_id = u
    /\ PayoutRows(proc[q].campaign_id, u) = {}

\* A handler of /retirar, /paywithdraw or /rejectwithdraw on user u's row is
\* running on process q.
WithdrawalInFlight(q, u) ==
    /\ proc[q].pc \in {"req_write", "paywd_select_held", "paywd_write", "rej_write"}
    /\ proc[q].user_id = u

\* What the operation process p commits with this step adds to balance +
\* held of its user: the payout for a payout, minus the amount for a pay,
\* nothing for a request or a reject.
CommittedDelta(p) ==
    IF proc[p].pc = "pay_write" THEN proc[p].payout
    ELSE IF proc[p].pc = "paywd_write" THEN 0 - proc[p].amount
    ELSE 0

\* Process p commits, with this step, a payout, a request, a pay or a
\* reject.
UserRowCommits(p) ==
    \/ proc[p].pc = "pay_write" /\ payouts' # payouts
    \/ RequestCommits(p)
    \/ RejectCommits(p)
    \/ proc[p].pc = "paywd_write" /\ proc'[p].pc = "idle" /\ proc'[p].status = "ok"

\* C40 (no lost update on the user row): when a payout of a user runs
\* concurrently with the user's request or with a pay or reject of one of
\* the user's withdrawals, each of the two commits changes the user's
\* balance + held by exactly its own amount (the payout; minus the amount
\* of a paid withdrawal; nothing for a request or a reject), so that the
\* final balance + held is the initial one plus the payout minus what was
\* paid.
C40_NoLostUpdate ==
    [][\A p, q \in Procs :
          \A u \in Users :
             (/\ p # q
              /\ UserRowCommits(p)
              /\ proc[p].user_id = u
              /\ \/ proc[p].pc = "pay_write" /\ WithdrawalInFlight(q, u)
                 \/ proc[p].pc # "pay_write" /\ PayoutInFlight(q, u))
             => users'[u].balance + users'[u].held
                   = users[u].balance + users[u].held + CommittedDelta(p)]_vars

====
